---- MODULE Spec2Model ----
(***************************************************************************)
(* A model of the DFS behavioral parser: the entry batch, the contest      *)
(* classifier, BehavioralScorer, PersonaDetector / PersonaScore,           *)
(* WeightMapper / PatternWeights and the two pipeline drivers (app.py and  *)
(* demo.py).                                                               *)
(*                                                                         *)
(* Numbers.  Decimal and float values are held as scaled integers:         *)
(*   money                       cents                                     *)
(*   percentages, diversity, variance, recency, confidence, multi-entry    *)
(*   rate, avg_entry_fee          1/10000                                  *)
(*   roi_overall, entries_per_week 1/100                                   *)
(*   persona scores               1/10000                                  *)
(*   pattern modifiers            1/10, pattern weights 1/100000           *)
(* Binary floating point is modelled as decimal fixed point: a quotient is *)
(* rounded at the scale of the field that receives it.                     *)
(* Timestamps are integers counting ticks, TicksPerDay ticks to a day;     *)
(* timedelta.days is the floor of a tick difference over TicksPerDay.      *)
(***************************************************************************)
EXTENDS Integers, Sequences, FiniteSets, TLC

VARIABLES
    clock,       \* wall clock, in ticks (datetime.now())
    entries,     \* the entry batch handed to the scorer / parsed by the driver
    scorer,      \* the BehavioralScorer object under test, or NoScorer
    calls,       \* history of calculate_metrics calls
    driver,      \* which pipeline driver runs: "app", "demo" or "none"
    pc,          \* position of the driver / of the repeated pipeline
    trace,       \* stages the driver has executed, in order
    classified,  \* output of classify_entries
    metrics,     \* output of calculate_metrics
    persona,     \* output of PersonaScore construction / score_personas
    weights,     \* output of calculate_weights
    outcome,     \* what the driver handed back to its caller
    op,          \* last model operation applied (pure-function harness)
    args,        \* arguments of that operation
    first        \* outputs of the first of two pipeline runs

vars == <<clock, entries, scorer, calls, driver, pc, trace, classified,
          metrics, persona, weights, outcome, op, args, first>>

-----------------------------------------------------------------------------
(* Bounds of the model *)

MaxBatch == 2      \* longest entry batch
MaxClock == 2      \* the wall clock advances at most this many ticks
MaxCalls == 2      \* calculate_metrics calls kept in the history
TicksPerDay == 2   \* resolution of a timestamp

-----------------------------------------------------------------------------
(* Calibration constants, src/utils/constants.py *)

RECENCY_HALF_LIFE_DAYS == 90
CONFIDENCE_WEIGHT_VOLUME == 5        \* Decimal('0.5'), in tenths
CONFIDENCE_WEIGHT_RECENCY == 3       \* Decimal('0.3'), in tenths
CONFIDENCE_WEIGHT_DIVERSITY == 2     \* Decimal('0.2'), in tenths
MIN_ENTRIES_FOR_FULL_CONFIDENCE == 50
STALE_DATA_THRESHOLD_DAYS == 365

PctScale == 10000     \* four decimal places: round(x, 4)
CentScale == 100      \* two decimal places: round(x, 2), cents

-----------------------------------------------------------------------------
(* Integer helpers *)

Max(a, b) == IF a >= b THEN a ELSE b
Min(a, b) == IF a <= b THEN a ELSE b
Abs(a) == IF a < 0 THEN -a ELSE a

\* round(a / b) as Python's round() does it: ties go to the even neighbour.
RoundHalfEven(a, b) ==
    LET q == a \div b
        r == a % b
    IN  IF 2 * r < b THEN q
        ELSE IF 2 * r > b THEN q + 1
        ELSE IF q % 2 = 0 THEN q ELSE q + 1

\* Decimal.quantize(..., rounding=ROUND_HALF_UP) of a / b, for a >= 0.
RoundHalfUp(a, b) ==
    LET q == a \div b
        r == a % b
    IN  IF 2 * r >= b THEN q + 1 ELSE q

RECURSIVE Pow10(_)
Pow10(n) == IF n = 0 THEN 1 ELSE 10 * Pow10(n - 1)

\* floor(a * 10^digits / b) by long division, one decimal digit at a time,
\* so that no intermediate product leaves the 32-bit range.
RECURSIVE LongDiv(_, _, _)
LongDiv(a, b, digits) ==
    IF digits = 0 THEN a \div b
    ELSE (a \div b) * Pow10(digits) + LongDiv((a % b) * 10, b, digits - 1)

\* (a * 10^digits) % b, along the same long division
RECURSIVE LongRem(_, _, _)
LongRem(a, b, digits) ==
    IF digits = 0 THEN a % b
    ELSE LongRem((a % b) * 10, b, digits - 1)

\* floor(sqrt(x)) by bisection on lo..hi
RECURSIVE ISqrtIn(_, _, _)
ISqrtIn(x, lo, hi) ==
    IF lo >= hi THEN lo
    ELSE LET mid == (lo + hi + 1) \div 2
         IN  IF mid * mid <= x THEN ISqrtIn(x, mid, hi)
             ELSE ISqrtIn(x, lo, mid - 1)

ISqrt(x) == ISqrtIn(x, 0, 46340)

RECURSIVE SumSeq(_)
SumSeq(s) == IF s = <<>> THEN 0 ELSE Head(s) + SumSeq(Tail(s))

RECURSIVE MaxSeq(_)
MaxSeq(s) == IF Len(s) = 1 THEN s[1] ELSE Max(Head(s), MaxSeq(Tail(s)))

RECURSIVE MinSeq(_)
MinSeq(s) == IF Len(s) = 1 THEN s[1] ELSE Min(Head(s), MinSeq(Tail(s)))

\* [f(e) for e in s]
MapSeq(s, f(_)) == [i \in 1..Len(s) |-> f(s[i])]

\* all sequences over S of length 0..n
SeqsUpTo(S, n) == UNION {[1..k -> S] : k \in 0..n}

-----------------------------------------------------------------------------
(* DFSEntry, src/models/dfs_entry.py *)

\* Optional[str]: None, or a text held as its sequence of words
None == [is_none |-> TRUE, text |-> <<>>]
Str(words) == [is_none |-> FALSE, text |-> words]

\* Python truthiness of an Optional[str]: None and "" are falsy
Truthy(name) == ~name.is_none /\ name.text # <<>>

Day(d, h) == d * TicksPerDay + h

DFSEntry(id, date, sport, ctype, fee, win, name) ==
    [entry_id |-> id, date |-> date, sport |-> sport, contest_type |-> ctype,
     entry_fee |-> fee, winnings |-> win, points |-> 0,
     source |-> "DRAFTKINGS", contest_name |-> name]

\* days of a timedelta: floor of the tick difference over a day
Days(delta) == delta \div TicksPerDay

DayNames == <<"Sunday", "Monday", "Tuesday", "Wednesday", "Thursday",
              "Friday", "Saturday">>

\* date.strftime("%A"); tick 0 is the start of a Sunday
Weekday(date) == DayNames[(Days(date) % 7) + 1]

-----------------------------------------------------------------------------
(* collections.Counter: a dict, held as its items in insertion order *)

CounterAdd(cnt, k) ==
    IF \E i \in 1..Len(cnt) : cnt[i].key = k
    THEN [i \in 1..Len(cnt) |->
             IF cnt[i].key = k
             THEN [key |-> k, count |-> cnt[i].count + 1] ELSE cnt[i]]
    ELSE Append(cnt, [key |-> k, count |-> 1])

RECURSIVE CounterFrom(_, _)
CounterFrom(cnt, keys) ==
    IF keys = <<>> THEN cnt
    ELSE CounterFrom(CounterAdd(cnt, Head(keys)), Tail(keys))

Counter(keys) == CounterFrom(<<>>, keys)

Counts(cnt) == [i \in 1..Len(cnt) |-> cnt[i].count]

\* Counter.most_common(1): the first item, in insertion order, whose count
\* is maximal
MostCommon(cnt) ==
    LET m == MaxSeq(Counts(cnt))
        i == CHOOSE j \in 1..Len(cnt) :
                 /\ cnt[j].count = m
                 /\ \A k \in 1..(j - 1) : cnt[k].count < m
    IN  cnt[i]

-----------------------------------------------------------------------------
(* BehavioralMetrics, src/models/behavioral_metrics.py *)

Ok(v) == [status |-> "ok", value |-> v]
Raised(kind) == [status |-> kind, value |-> <<>>]
NoResult == [status |-> "none", value |-> <<>>]

\* what a driver hands back: nothing yet, an error, or a response body
NoOutcome == [kind |-> "none", body |-> <<>>]
Outcome(kind, body) == [kind |-> kind, body |-> body]

InUnit(v) == 0 <= v /\ v <= PctScale

\* BehavioralMetrics.__post_init__: the constructor returns the record or
\* raises ValueError
BehavioralMetrics(m) ==
    IF \/ m.total_entries < 0
       \/ ~InUnit(m.gpp_percentage)
       \/ ~InUnit(m.cash_percentage)
       \/ ~InUnit(m.h2h_percentage)
       \/ ~InUnit(m.sport_diversity)
       \/ ~InUnit(m.confidence_score)
    THEN Raised("ValueError")
    ELSE Ok(m)

\* BehavioralMetrics.empty()
EmptyMetricsMut ==
    BehavioralMetrics(
        [total_entries |-> 0, entries_by_sport |-> <<>>,
         entries_by_contest_type |-> <<>>, total_invested |-> 0,
         total_winnings |-> 0, avg_entry_fee |-> 0, roi_overall |-> 0,
         gpp_percentage |-> 0, cash_percentage |-> 0, h2h_percentage |-> 0,
         multi_entry_rate |-> PctScale, sport_diversity |-> 0,
         stake_variance |-> 0, entries_per_week |-> 0,
         most_active_day |-> "", recency_score |-> 0,
         confidence_score |-> 0])

EmptyMetrics ==
    BehavioralMetrics(
        [total_entries |-> 0, entries_by_sport |-> <<>>,
         entries_by_contest_type |-> <<>>, total_invested |-> 0,
         total_winnings |-> 0, avg_entry_fee |-> 0, roi_overall |-> 0,
         gpp_percentage |-> 0, cash_percentage |-> 0, h2h_percentage |-> 0,
         multi_entry_rate |-> 0, sport_diversity |-> 0,
         stake_variance |-> 0, entries_per_week |-> 0,
         most_active_day |-> "", recency_score |-> 0,
         confidence_score |-> 0])

-----------------------------------------------------------------------------
(* BehavioralScorer, src/scoring/behavioral_scorer.py *)

NoScorer ==
    [exists |-> FALSE, injected |-> FALSE, reference_date |-> 0, built_at |-> 0]

NoRef == [is_none |-> TRUE, at |-> 0]
Ref(t) == [is_none |-> FALSE, at |-> t]

\* a default captured once, when the module is loaded, instead of per object
NewScorerStaleDefault(ref, now) ==
    [exists |-> TRUE, injected |-> ~ref.is_none,
     reference_date |-> IF ref.is_none THEN Day(10, 0) ELSE ref.at,
     built_at |-> now]

\* a constructor that reads the clock even when a reference time is injected
NewScorerIgnoresInjection(ref, now) ==
    [exists |-> TRUE, injected |-> ~ref.is_none,
     reference_date |-> now,
     built_at |-> now]

\* BehavioralScorer.__init__: reference_date or datetime.now()
NewScorer(ref, now) ==
    [exists |-> TRUE, injected |-> ~ref.is_none,
     reference_date |-> IF ref.is_none THEN now ELSE ref.at,
     built_at |-> now]

Sport(e) == e.sport
ContestType(e) == e.contest_type
ContestName(e) == e.contest_name
EntryFee(e) == e.entry_fee
Winnings(e) == e.winnings
Date(e) == e.date

count_by_sport(es) == Counter(MapSeq(es, Sport))

count_by_contest_type(es) == Counter(MapSeq(es, ContestType))

\* ((winnings - invested) / invested) * 100, in 1/100
calculate_roi(invested, winnings) ==
    IF invested = 0 THEN 0
    ELSE RoundHalfEven((winnings - invested) * 100 * CentScale, invested)

calculate_type_percentage(es, ctype) ==
    LET count == Cardinality({i \in 1..Len(es) : es[i].contest_type = ctype})
    IN  RoundHalfEven(count * PctScale, Len(es))

\* a multi-entry rate that counts the entries without a contest name as one
\* more group
calculate_multi_entry_rate_unnamed(es) ==
    IF es = <<>> THEN 0
    ELSE LET contest_counts == Counter(MapSeq(es, ContestName))
         IN  RoundHalfEven(SumSeq(Counts(contest_counts)) * PctScale,
                           Len(contest_counts))

calculate_multi_entry_rate(es) ==
    IF es = <<>> THEN 0
    ELSE LET contest_counts == Counter(MapSeq(es, ContestName))
             valid == SelectSeq(contest_counts, LAMBDA it : Truthy(it.key))
         IN  IF valid = <<>> THEN PctScale
             ELSE RoundHalfEven(SumSeq(Counts(valid)) * PctScale, Len(valid))

\* math.log2 of 1..6, in 1/1000000
Log2Table == <<0, 1000000, 1584963, 2000000, 2321928, 2584963>>

\* round(a / b, 4) for 0 <= a, in 1/10000: the quotient by long division,
\* then Python's round-half-even on what is left
Round4(a, b) ==
    LET q == LongDiv(a, b, 4)
        r == LongRem(a, b, 4)
    IN  IF 2 * r < b THEN q
        ELSE IF 2 * r > b THEN q + 1
        ELSE IF q % 2 = 0 THEN q ELSE q + 1

calculate_sport_diversity(es) ==
    IF es = <<>> THEN 0
    ELSE LET sport_counts == Counter(MapSeq(es, Sport))
             total == Len(es)
             num_sports == Len(sport_counts)
             cs == Counts(sport_counts)
             \* total * entropy = total*log2(total) - sum c*log2(c)
             entropyN == total * Log2Table[total]
                           - SumSeq([i \in 1..Len(cs) |-> cs[i] * Log2Table[cs[i]]])
             max_entropyN == total * Log2Table[num_sports]
         IN  IF num_sports <= 1 THEN 0
             ELSE Round4(entropyN, max_entropyN)

calculate_stake_variance(es) ==
    IF Len(es) < 2 THEN 0
    ELSE LET fees == MapSeq(es, EntryFee)
             n == Len(fees)
             total == SumSeq(fees)
             \* n^2 * variance = n * sum x^2 - (sum x)^2
             varN == n * SumSeq([i \in 1..n |-> fees[i] * fees[i]]) - total * total
             \* cv^2 = varN / total^2, to eight decimal places
             cv2 == LongDiv(varN, total * total, 8)
             root == ISqrt(cv2)
         IN  IF total = 0 THEN 0
             ELSE IF cv2 >= root * root + root + 1 THEN root + 1 ELSE root

calculate_entries_per_week(es) ==
    IF es = <<>> THEN 0
    ELSE LET dates == MapSeq(es, Date)
             days_span == Days(MaxSeq(dates) - MinSeq(dates))
         IN  IF days_span <= 7 THEN Len(es) * CentScale
             ELSE RoundHalfEven(Len(es) * 7 * CentScale, days_span)

\* a most active day that lets the weekday seen last win a tie
calculate_most_active_day_last(es) ==
    IF es = <<>> THEN ""
    ELSE LET cnt == Counter([i \in 1..Len(es) |-> Weekday(es[i].date)])
             m == MaxSeq(Counts(cnt))
             i == CHOOSE j \in 1..Len(cnt) :
                      /\ cnt[j].count = m
                      /\ \A k \in (j + 1)..Len(cnt) : cnt[k].count < m
         IN  cnt[i].key

calculate_most_active_day(es) ==
    IF es = <<>> THEN ""
    ELSE MostCommon(Counter([i \in 1..Len(es) |-> Weekday(es[i].date)])).key

\* math.exp(-r / 90) for r = 0..89, in 1/100000
ExpStepTable ==
    <<100000, 98895, 97802, 96722, 95653, 94596, 93551, 92517, 91495, 90484,
       89484, 88495, 87517, 86550, 85594, 84648, 83713, 82788, 81873, 80968,
       80074, 79189, 78314, 77449, 76593, 75747, 74910, 74082, 73263, 72454,
       71653, 70861, 70078, 69304, 68538, 67781, 67032, 66291, 65559, 64834,
       64118, 63410, 62709, 62016, 61331, 60653, 59983, 59320, 58665, 58016,
       57375, 56741, 56114, 55494, 54881, 54275, 53675, 53082, 52495, 51915,
       51342, 50774, 50213, 49659, 49110, 48567, 48031, 47500, 46975, 46456,
       45943, 45435, 44933, 44436, 43945, 43460, 42980, 42505, 42035, 41571,
       41111, 40657, 40208, 39763, 39324, 38890, 38460, 38035, 37615, 37199>>

\* math.exp(-q) for q = 0..10, in 1/10000
ExpWholeTable == <<10000, 3679, 1353, 498, 183, 67, 25, 9, 3, 1, 0>>

\* math.exp(-days_ago / RECENCY_HALF_LIFE_DAYS), in 1/1000000
ExpDecay(days_ago) ==
    LET q == days_ago \div RECENCY_HALF_LIFE_DAYS
        r == days_ago % RECENCY_HALF_LIFE_DAYS
    IN  IF q > 10 THEN 0
        ELSE (ExpWholeTable[q + 1] * ExpStepTable[r + 1]) \div 1000

calculate_recency_score(self, es) ==
    IF es = <<>> THEN 0
    ELSE LET weight(e) == ExpDecay(Max(0, Days(self.reference_date - e.date)))
             total_weight == SumSeq(MapSeq(es, weight))
             normalized == RoundHalfEven(total_weight, Len(es) * 100)
         IN  Min(normalized, PctScale)

calculate_confidence(self, es, entries_by_contest_type) ==
    IF es = <<>> THEN 0
    ELSE LET count == Min(Len(es), MIN_ENTRIES_FOR_FULL_CONFIDENCE)
             most_recent == MaxSeq(MapSeq(es, Date))
             days_old == Days(self.reference_date - most_recent)
             recency == Max(0, STALE_DATA_THRESHOLD_DAYS - days_old)
             unique_types ==
                 Len(SelectSeq(entries_by_contest_type,
                               LAMBDA it : it.key # "UNKNOWN"))
             diversity == Min(unique_types, 4)
             \* 10000 * (wv*count/50 + wr*recency/365 + wd*diversity/4) / 10
             den == (MIN_ENTRIES_FOR_FULL_CONFIDENCE
                       * STALE_DATA_THRESHOLD_DAYS * 4) \div 1000
             num == CONFIDENCE_WEIGHT_VOLUME * count
                        * (STALE_DATA_THRESHOLD_DAYS * 4)
                    + CONFIDENCE_WEIGHT_RECENCY * recency
                        * (MIN_ENTRIES_FOR_FULL_CONFIDENCE * 4)
                    + CONFIDENCE_WEIGHT_DIVERSITY * diversity
                        * (MIN_ENTRIES_FOR_FULL_CONFIDENCE
                             * STALE_DATA_THRESHOLD_DAYS)
         IN  RoundHalfEven(num, den)

\* BehavioralScorer.calculate_metrics
calculate_metrics(self, es) ==
    IF es = <<>> THEN EmptyMetrics
    ELSE LET total_entries == Len(es)
             entries_by_sport == count_by_sport(es)
             entries_by_contest_type == count_by_contest_type(es)
             total_invested == SumSeq(MapSeq(es, EntryFee))
             total_winnings == SumSeq(MapSeq(es, Winnings))
         IN  BehavioralMetrics(
               [total_entries |-> total_entries,
                entries_by_sport |-> entries_by_sport,
                entries_by_contest_type |-> entries_by_contest_type,
                total_invested |-> total_invested,
                total_winnings |-> total_winnings,
                avg_entry_fee |->
                    RoundHalfEven(total_invested * 100, total_entries),
                roi_overall |-> calculate_roi(total_invested, total_winnings),
                gpp_percentage |-> calculate_type_percentage(es, "GPP"),
                cash_percentage |-> calculate_type_percentage(es, "CASH"),
                h2h_percentage |-> calculate_type_percentage(es, "H2H"),
                multi_entry_rate |-> calculate_multi_entry_rate(es),
                sport_diversity |-> calculate_sport_diversity(es),
                stake_variance |-> calculate_stake_variance(es),
                entries_per_week |-> calculate_entries_per_week(es),
                most_active_day |-> calculate_most_active_day(es),
                recency_score |-> calculate_recency_score(self, es),
                confidence_score |->
                    calculate_confidence(self, es, entries_by_contest_type)])

-----------------------------------------------------------------------------
(* PersonaScore, src/models/persona_score.py *)

ScoreOne == 10000        \* Decimal('1'), in 1/10000
SumTolerance == 10       \* Decimal('0.001'), in 1/10000

\* a validation that lets an out-of-tolerance sum through up to 0.002
PersonaScoreLooseSum(bettor, fantasy, stats_nerd) ==
    IF \E score \in {bettor, fantasy, stats_nerd} : score < 0 \/ score > ScoreOne
    THEN Raised("ValueError")
    ELSE IF Abs(bettor + fantasy + stats_nerd - ScoreOne) > 2 * SumTolerance
    THEN Raised("ValueError")
    ELSE Ok([bettor |-> bettor, fantasy |-> fantasy, stats_nerd |-> stats_nerd])

\* PersonaScore(bettor, fantasy, stats_nerd): __post_init__ validates
PersonaScore(bettor, fantasy, stats_nerd) ==
    IF \E score \in {bettor, fantasy, stats_nerd} : score < 0 \/ score > ScoreOne
    THEN Raised("ValueError")
    ELSE IF Abs(bettor + fantasy + stats_nerd - ScoreOne) > SumTolerance
    THEN Raised("ValueError")
    ELSE Ok([bettor |-> bettor, fantasy |-> fantasy, stats_nerd |-> stats_nerd])

\* an equal three-way split that no longer adds up to 1
from_raw_scores_thirds(bettor_raw, fantasy_raw, stats_nerd_raw) ==
    LET total == bettor_raw + fantasy_raw + stats_nerd_raw
    IN  IF total = 0
        THEN PersonaScore(3300, 3300, 3300)
        ELSE LET bettor_norm == RoundHalfUp(bettor_raw * 1000, total) * 10
                 fantasy_norm == RoundHalfUp(fantasy_raw * 1000, total) * 10
             IN  PersonaScore(bettor_norm, fantasy_norm,
                              ScoreOne - bettor_norm - fantasy_norm)

\* PersonaScore.from_raw_scores: the raw scores are non-negative numbers in
\* any common unit; only their ratios matter
from_raw_scores(bettor_raw, fantasy_raw, stats_nerd_raw) ==
    LET total == bettor_raw + fantasy_raw + stats_nerd_raw
    IN  IF total = 0
        THEN PersonaScore(3300, 3300, 3400)
        ELSE LET \* quantize(Decimal('0.001'), ROUND_HALF_UP)
                 bettor_norm == RoundHalfUp(bettor_raw * 1000, total) * 10
                 fantasy_norm == RoundHalfUp(fantasy_raw * 1000, total) * 10
             IN  PersonaScore(bettor_norm, fantasy_norm,
                              ScoreOne - bettor_norm - fantasy_norm)

HYBRID_THRESHOLD == 3000     \* Decimal('0.3'), in 1/10000

\* a primary persona that resolves a tie in favour of the last persona
primary_persona_last(p) ==
    LET top == Max(p.bettor, Max(p.fantasy, p.stats_nerd))
    IN  IF p.stats_nerd = top THEN "STATS_NERD"
        ELSE IF p.fantasy = top THEN "FANTASY"
        ELSE "BETTOR"

\* max(scores, key=scores.get): the first of BETTOR, FANTASY, STATS_NERD that
\* holds the highest score
primary_persona(p) ==
    LET top == Max(p.bettor, Max(p.fantasy, p.stats_nerd))
    IN  IF p.bettor = top THEN "BETTOR"
        ELSE IF p.fantasy = top THEN "FANTASY"
        ELSE "STATS_NERD"

\* a hybrid test that counts a score equal to the threshold
is_hybrid_inclusive(p) ==
    Cardinality({name \in {"bettor", "fantasy", "stats_nerd"} :
                    p[name] >= HYBRID_THRESHOLD}) >= 2

is_hybrid(p) ==
    Cardinality({name \in {"bettor", "fantasy", "stats_nerd"} :
                    p[name] > HYBRID_THRESHOLD}) >= 2

confidence(p) ==
    Max(p.bettor, Max(p.fantasy, p.stats_nerd))
        - Min(p.bettor, Min(p.fantasy, p.stats_nerd))

\* sorted(scores, key=lambda x: x[1], reverse=True): a stable sort, so equal
\* scores keep the order BETTOR, FANTASY, STATS_NERD
scores_ranked(p) ==
    LET scores == <<<<"BETTOR", p.bettor>>, <<"FANTASY", p.fantasy>>,
                    <<"STATS_NERD", p.stats_nerd>>>>
        Place(i) == 1 + Cardinality({j \in 1..3 :
                            \/ scores[j][2] > scores[i][2]
                            \/ scores[j][2] = scores[i][2] /\ j < i})
    IN  [k \in 1..3 |-> scores[CHOOSE i \in 1..3 : Place(i) = k]]

\* PersonaScore.secondary_persona: sorted_scores[1][0]
secondary_persona(p) == scores_ranked(p)[2][1]

\* str(Decimal): sign, whole part and the digits after the point, here at
\* the scale the model stores the number in (the code's Decimal prints as
\* many digits as its own exponent says)
DecimalStr(v, places) ==
    [sign |-> IF v < 0 THEN "-" ELSE "",
     whole |-> Abs(v) \div Pow10(places),
     digits |-> [k \in 1..places |->
                    (Abs(v) \div Pow10(places - k)) % 10]]

\* PersonaScore.to_dict
PersonaScoreToDict(p) ==
    [bettor |-> DecimalStr(p.bettor, 4),
     fantasy |-> DecimalStr(p.fantasy, 4),
     stats_nerd |-> DecimalStr(p.stats_nerd, 4),
     primary_persona |-> primary_persona(p),
     is_hybrid |-> is_hybrid(p),
     confidence |-> DecimalStr(confidence(p), 4)]

-----------------------------------------------------------------------------
(* PersonaDetector, src/scoring/persona_detector.py *)

\* (min, max) per signal, each in the unit of the metric it is compared with
BETTOR_SIGNALS ==
    [gpp_percentage |-> <<7000, 10000>>,
     avg_entry_fee |-> <<100000, 9990000>>,
     sport_diversity |-> <<0, 5000>>,
     multi_entry_rate |-> <<10000, 20000>>]

FANTASY_SIGNALS ==
    [cash_percentage |-> <<4000, 10000>>,
     multi_entry_rate |-> <<30000, 200000>>,
     entries_per_week |-> <<2000, 10000>>,
     roi_moderate |-> <<-2000, 2000>>]

STATS_NERD_SIGNALS ==
    [sport_diversity |-> <<7000, 10000>>,
     stake_variance |-> <<5000, 20000>>,
     avg_entry_fee |-> <<0, 50000>>]

SignalOne == 10000       \* the sub-score 1.0, in 1/10000

\* a signal score that gives 0 on a range of a single value
score_signal_degenerate_zero(value, signal_range) ==
    LET min_val == signal_range[1]
        max_val == signal_range[2]
        range_size == max_val - min_val
    IN  IF value < min_val THEN 0
        ELSE IF value > max_val THEN SignalOne
        ELSE IF range_size = 0 THEN 0
        ELSE Round4(value - min_val, range_size)

\* _score_signal(value, (min_val, max_val)), in 1/10000
score_signal(value, signal_range) ==
    LET min_val == signal_range[1]
        max_val == signal_range[2]
        range_size == max_val - min_val
    IN  IF value < min_val THEN 0
        ELSE IF value > max_val THEN SignalOne
        ELSE IF range_size = 0 THEN SignalOne
        ELSE Round4(value - min_val, range_size)

\* sum(scores) / len(scores), in 1/120000: the means of three and of four
\* sub-scores are then both whole numbers
Mean(scores) == (SumSeq(scores) * 12) \div Len(scores)

score_bettor(m) ==
    Mean(<<score_signal(m.gpp_percentage, BETTOR_SIGNALS.gpp_percentage),
           score_signal(m.avg_entry_fee, BETTOR_SIGNALS.avg_entry_fee),
           SignalOne - score_signal(m.sport_diversity,
                                    BETTOR_SIGNALS.sport_diversity),
           SignalOne - score_signal(m.multi_entry_rate,
                                    BETTOR_SIGNALS.multi_entry_rate)>>)

score_fantasy(m) ==
    LET roi == m.roi_overall
        roi_range == FANTASY_SIGNALS.roi_moderate
        max_deviation == Max(Abs(roi_range[1]), Abs(roi_range[2]))
        roi_score == IF roi_range[1] <= roi /\ roi <= roi_range[2]
                     THEN SignalOne - Round4(Abs(roi), max_deviation)
                     ELSE 0
    IN  Mean(<<score_signal(m.cash_percentage, FANTASY_SIGNALS.cash_percentage),
               score_signal(m.multi_entry_rate, FANTASY_SIGNALS.multi_entry_rate),
               score_signal(m.entries_per_week, FANTASY_SIGNALS.entries_per_week),
               roi_score>>)

score_stats_nerd(m) ==
    Mean(<<score_signal(m.sport_diversity, STATS_NERD_SIGNALS.sport_diversity),
           score_signal(m.stake_variance, STATS_NERD_SIGNALS.stake_variance),
           SignalOne - score_signal(m.avg_entry_fee,
                                    STATS_NERD_SIGNALS.avg_entry_fee)>>)

\* PersonaDetector.score_personas
score_personas(m) ==
    from_raw_scores(score_bettor(m), score_fantasy(m), score_stats_nerd(m))

-----------------------------------------------------------------------------
(* PatternWeights and WeightMapper, src/models/pattern_weights.py and
   src/scoring/weight_mapper.py *)

PATTERN_NAMES ==
    <<"line_movement", "historical_trends", "injury_impact", "weather_factors",
      "player_correlations", "situational_stats", "live_odds_delta",
      "contrarian_plays">>

PatternSet == {PATTERN_NAMES[i] : i \in 1..Len(PATTERN_NAMES)}

\* modifiers in tenths
BETTOR_MODIFIERS ==
    [line_movement |-> 15, historical_trends |-> 9, injury_impact |-> 13,
     weather_factors |-> 8, player_correlations |-> 7,
     situational_stats |-> 10, live_odds_delta |-> 14, contrarian_plays |-> 11]

FANTASY_MODIFIERS ==
    [line_movement |-> 8, historical_trends |-> 11, injury_impact |-> 15,
     weather_factors |-> 10, player_correlations |-> 16,
     situational_stats |-> 13, live_odds_delta |-> 6, contrarian_plays |-> 14]

STATS_NERD_MODIFIERS ==
    [line_movement |-> 7, historical_trends |-> 15, injury_impact |-> 9,
     weather_factors |-> 13, player_correlations |-> 12,
     situational_stats |-> 16, live_odds_delta |-> 5, contrarian_plays |-> 13]

\* the number a sequence of decimal digits denotes
RECURSIVE DigitsValue(_)
DigitsValue(digits) ==
    IF digits = <<>> THEN 0
    ELSE 10 * DigitsValue(SubSeq(digits, 1, Len(digits) - 1))
         + digits[Len(digits)]

\* a Decimal(str(...)) that loses the sign of the text
ParseDecimalUnsigned(text) ==
    text.whole * Pow10(Len(text.digits)) + DigitsValue(text.digits)

\* Decimal(str(x)) of a text DecimalStr wrote: the number it denotes, in the
\* unit 10^-places
ParseDecimal(text) ==
    (IF text.sign = "-" THEN -1 ELSE 1)
        * (text.whole * Pow10(Len(text.digits)) + DigitsValue(text.digits))

WeightOne == 100000      \* Decimal('1.0'), in 1/100000

\* a validation that only looks at the first weight
PatternWeightsChecksFirst(w) ==
    IF w[PATTERN_NAMES[1]] < 0
    THEN Raised("ValueError")
    ELSE Ok(w)

\* PatternWeights(**weights): __post_init__ rejects a negative weight
PatternWeights(w) ==
    IF \E name \in PatternSet : w[name] < 0
    THEN Raised("ValueError")
    ELSE Ok(w)

\* PatternWeights(): every field takes its default Decimal('1.0')
DefaultPatternWeights == PatternWeights([name \in PatternSet |-> WeightOne])

\* PatternWeights.neutral
neutral == DefaultPatternWeights

\* PatternWeights.from_dict: data maps some of the pattern names to texts; a
\* missing name gets '1.0'
PatternWeightsFromDict(data) ==
    PatternWeights(
        [name \in PatternSet |->
            ParseDecimal(IF name \in DOMAIN data THEN data[name]
                         ELSE DecimalStr(WeightOne, 5))])

\* a blend that is normalized by the sum of the three scores
calculate_weights_normalized(persona_scores) ==
    LET total == persona_scores.bettor + persona_scores.fantasy
                 + persona_scores.stats_nerd
    IN  PatternWeights(
            [name \in PatternSet |->
                ((  persona_scores.bettor * BETTOR_MODIFIERS[name]
                  + persona_scores.fantasy * FANTASY_MODIFIERS[name]
                  + persona_scores.stats_nerd * STATS_NERD_MODIFIERS[name])
                 * ScoreOne) \div total])

\* a blend that leaves the stats_nerd term out
calculate_weights_two_terms(persona_scores) ==
    PatternWeights(
        [name \in PatternSet |->
              persona_scores.bettor * BETTOR_MODIFIERS[name]
            + persona_scores.fantasy * FANTASY_MODIFIERS[name]])

\* WeightMapper.calculate_weights, weights in 1/100000
calculate_weights(persona_scores) ==
    PatternWeights(
        [name \in PatternSet |->
              persona_scores.bettor * BETTOR_MODIFIERS[name]
            + persona_scores.fantasy * FANTASY_MODIFIERS[name]
            + persona_scores.stats_nerd * STATS_NERD_MODIFIERS[name]])

-----------------------------------------------------------------------------
(* The entry batches the model draws from *)

GppName == Str(<<"NFL", "$20K", "GPP">>)
CashName == Str(<<"50/50", "Double", "Up">>)

FutureDay == 850     \* an entry dated long after every reference time

EntryPool ==
    { DFSEntry("1", Day(0, 0), "NFL", "GPP", 1000, 0, GppName),
      DFSEntry("2", Day(1, 1), "NFL", "CASH", 1000, 2500, CashName),
      DFSEntry("3", Day(8, 0), "NBA", "H2H", 500, 0, None),
      DFSEntry("4", Day(FutureDay, 0), "NFL", "GPP", 2500, 0, GppName),
      DFSEntry("5", Day(0, 1), "MLB", "UNKNOWN", 0, 500, Str(<<>>)) }

Batches == SeqsUpTo(EntryPool, MaxBatch)

StartOfClock == Day(10, 0)     \* the wall clock when the behaviour starts
InjectedRefs == {Day(10, 0)}   \* reference times a caller injects

-----------------------------------------------------------------------------
(* The scorer under direct use: construct, call, let time pass *)

Idle ==
    /\ driver = "none" /\ pc = "idle" /\ trace = <<>> /\ classified = <<>>
    /\ metrics = NoResult /\ persona = NoResult /\ weights = NoResult
    /\ outcome = NoOutcome /\ op = "none" /\ args = <<>> /\ first = <<>>

Init ==
    /\ clock = StartOfClock
    /\ entries \in Batches
    /\ scorer = NoScorer
    /\ calls = <<>>
    /\ Idle

restOfScorer == <<driver, pc, trace, classified, metrics, persona, weights,
                  outcome, op, args, first>>

\* time passes
Tick ==
    /\ clock < StartOfClock + MaxClock
    /\ clock' = clock + 1
    /\ UNCHANGED <<entries, scorer, calls>>
    /\ UNCHANGED restOfScorer

\* scorer = BehavioralScorer(reference_date=r)
ConstructInjected ==
    /\ ~scorer.exists
    /\ \E r \in InjectedRefs : scorer' = NewScorer(Ref(r), clock)
    /\ UNCHANGED <<clock, entries, calls>>
    /\ UNCHANGED restOfScorer

\* scorer = BehavioralScorer()
ConstructDefault ==
    /\ ~scorer.exists
    /\ scorer' = NewScorer(NoRef, clock)
    /\ UNCHANGED <<clock, entries, calls>>
    /\ UNCHANGED restOfScorer

\* one call: on which scorer (the object under test, or the one the
\* module-level function builds for itself), when, and what came back
CallRecord(self, own, now, result) ==
    [convenience |-> own, injected |-> self.injected,
     built_at |-> self.built_at, at |-> now,
     reference_used |-> self.reference_date, result |-> result]

\* scorer.calculate_metrics(entries)
CalculateMetrics ==
    /\ scorer.exists
    /\ Len(calls) < MaxCalls
    /\ calls' = Append(calls,
                  CallRecord(scorer, FALSE, clock,
                             calculate_metrics(scorer, entries)))
    /\ UNCHANGED <<clock, entries, scorer>>
    /\ UNCHANGED restOfScorer

\* the module-level calculate_metrics(entries): a fresh default scorer per call
ConvenienceCalculateMetrics ==
    /\ Len(calls) < MaxCalls
    /\ LET fresh == NewScorer(NoRef, clock)
       IN  calls' = Append(calls,
                      CallRecord(fresh, TRUE, clock,
                                 calculate_metrics(fresh, entries)))
    /\ UNCHANGED <<clock, entries, scorer>>
    /\ UNCHANGED restOfScorer

Next ==
    \/ Tick
    \/ ConstructInjected
    \/ ConstructDefault
    \/ CalculateMetrics
    \/ ConvenienceCalculateMetrics

Spec == Init /\ [][Next]_vars

-----------------------------------------------------------------------------
(* Claims about the scorer, checked under Spec *)

PercentageFieldsInUnit(m) ==
    /\ InUnit(m.gpp_percentage) /\ InUnit(m.cash_percentage)
    /\ InUnit(m.h2h_percentage) /\ InUnit(m.sport_diversity)
    /\ InUnit(m.recency_score) /\ InUnit(m.confidence_score)

\* C2: for every non-empty batch and every reference time, also one earlier
\* than an entry's timestamp, calculate_metrics returns a record (it does not
\* raise) whose six percentage-scale fields lie in [0,1].
C2_MetricsAlwaysInRange ==
    \A i \in 1..Len(calls) :
        entries # <<>> =>
            /\ calls[i].result.status = "ok"
            /\ PercentageFieldsInUnit(calls[i].result.value)

\* C8: on an empty batch calculate_metrics returns the empty sentinel, for
\* any reference time and without raising: no entries, empty count mappings,
\* every numeric field 0, most_active_day "" and confidence_score 0.
C8_EmptySentinel ==
    \A i \in 1..Len(calls) :
        entries = <<>> =>
            calls[i].result =
                Ok([total_entries |-> 0, entries_by_sport |-> <<>>,
                    entries_by_contest_type |-> <<>>, total_invested |-> 0,
                    total_winnings |-> 0, avg_entry_fee |-> 0,
                    roi_overall |-> 0, gpp_percentage |-> 0,
                    cash_percentage |-> 0, h2h_percentage |-> 0,
                    multi_entry_rate |-> 0, sport_diversity |-> 0,
                    stake_variance |-> 0, entries_per_week |-> 0,
                    most_active_day |-> "", recency_score |-> 0,
                    confidence_score |-> 0])

\* an empty batch was scored twice, by scorers holding different reference times
C8_Witness ==
    /\ entries = <<>>
    /\ Len(calls) = 2
    /\ calls[1].reference_used # calls[2].reference_used

\* C10 as stated: without an injected reference time every call of
\* calculate_metrics uses the clock reading of that call.
C10_ClockReadAtCall ==
    \A i \in 1..Len(calls) :
        ~calls[i].injected => calls[i].reference_used = calls[i].at

\* C10 amended: without an injected reference time a scorer uses the clock
\* reading of its own construction in every call; the module-level
\* calculate_metrics builds its scorer inside the call and so uses the
\* clock reading of the call.
C10_ClockReadAtConstruction ==
    \A i \in 1..Len(calls) :
        ~calls[i].injected =>
            /\ calls[i].reference_used = calls[i].built_at
            /\ calls[i].convenience => calls[i].reference_used = calls[i].at

\* one default-constructed scorer object was called at two different times
C10_Witness ==
    /\ Len(calls) = 2
    /\ ~calls[1].convenience /\ ~calls[2].convenience
    /\ ~calls[1].injected
    /\ calls[1].at # calls[2].at
    /\ calls[1].built_at < calls[1].at

\* the positions of the entries that carry a contest name
Named(es) ==
    {i \in 1..Len(es) :
        ~es[i].contest_name.is_none /\ es[i].contest_name.text # <<>>}

C22_WitnessSameContest ==
    /\ Len(calls) >= 1
    /\ calls[1].result.status = "ok"
    /\ Len(entries) = 2
    /\ entries[1].contest_name = entries[2].contest_name
    /\ calls[1].result.value.multi_entry_rate = 2 * PctScale

\* the number of entries of a batch that fall on a weekday
OnDay(es, day) == Cardinality({k \in 1..Len(es) : Weekday(es[k].date) = day})

\* the position of the first entry of a batch that falls on a weekday
FirstOnDay(es, day) ==
    CHOOSE k \in 1..Len(es) :
        /\ Weekday(es[k].date) = day
        /\ \A j \in 1..(k - 1) : Weekday(es[j].date) # day

PatternWeightsMethods ==
    {"apply_to_score", "get_weight", "to_dict", "from_dict", "neutral"}
PatternWeightsProperties == {"weights_ranked"}

\* getattr(self, pattern_name) on a PatternWeights
GetAttr(w, pattern_name) ==
    IF pattern_name \in PatternSet
    THEN Ok([type |-> "Decimal", value |-> w[pattern_name]])
    ELSE IF pattern_name \in PatternWeightsMethods
    THEN Ok([type |-> "method", value |-> pattern_name])
    ELSE IF pattern_name \in PatternWeightsProperties
    THEN Ok([type |-> "list", value |-> pattern_name])
    ELSE Raised("AttributeError")

\* PatternWeights.get_weight
get_weight(w, pattern_name) == GetAttr(w, pattern_name)

\* PatternWeights.apply_to_score: base_score * weight, the base score in
\* tenths and the product in 1/1000000; Decimal does not multiply with a
\* method or a list
apply_to_score(w, pattern_name, base_score) ==
    LET weight == GetAttr(w, pattern_name)
    IN  IF weight.status # "ok" THEN weight
        ELSE IF weight.value.type # "Decimal" THEN Raised("TypeError")
        ELSE Ok([type |-> "Decimal", value |-> base_score * weight.value.value])

\* PatternWeights.to_dict
PatternWeightsToDict(w) == [name \in PatternSet |-> DecimalStr(w[name], 5)]

-----------------------------------------------------------------------------
(* ContestTypeClassifier, src/classifiers/contest_type_classifier.py.
   A contest name is its sequence of words; a pattern is a phrase of
   upper-case words that must occur next to each other in the name, or, for
   the patterns with ".*", in that order with anything in between.  The
   numerals of the patterns with \d are written out for the words in Upper. *)

\* str.upper and re.IGNORECASE: the upper-case form of a word in use
Upper(word) ==
    CASE word = "Double" -> "DOUBLE"
      [] word = "nfl" -> "NFL"
      [] word = "Nba" -> "NBA"
      [] word = "draftkings" -> "DRAFTKINGS"
      [] word = "FanDuel" -> "FANDUEL"
      [] word = "Yahoo" -> "YAHOO"
      [] word = "h2h" -> "H2H"
      [] word = "gpp" -> "GPP"
      [] word = "Up" -> "UP"
      [] word = "20-Max" -> "20-MAX"
      [] word = "Beginner" -> "BEGINNER"
      [] word = "Contest" -> "CONTEST"
      [] OTHER -> word

Phrase(words) == [words |-> words, gap |-> FALSE]
InOrder(words) == [words |-> words, gap |-> TRUE]

CONTEST_PATTERNS ==
    [H2H |-> <<Phrase(<<"H2H">>), Phrase(<<"HEAD", "TO", "HEAD">>),
               Phrase(<<"HEADS", "UP">>), Phrase(<<"HEAD", "UP">>),
               Phrase(<<"1V1">>), Phrase(<<"ONE", "ON", "ONE">>)>>,
     CASH |-> <<Phrase(<<"50/50">>), Phrase(<<"FIFTY", "FIFTY">>),
                Phrase(<<"DOUBLE", "UP">>), Phrase(<<"CASH", "GAME">>),
                InOrder(<<"SINGLE", "ENTRY", "CASH">>)>>,
     MULTI |-> <<Phrase(<<"20-MAX">>), Phrase(<<"20", "MAX">>),
                 Phrase(<<"MULTI", "ENTRY">>), Phrase(<<"3", "ENTRY">>),
                 InOrder(<<"UNLIMITED", "ENTRY">>)>>,
     GPP |-> <<Phrase(<<"GPP">>), Phrase(<<"TOURNAMENT">>), Phrase(<<"$20K">>),
               Phrase(<<"GUARANTEED">>), Phrase(<<"GTD">>),
               Phrase(<<"MILLION">>), Phrase(<<"FREEROLL">>),
               Phrase(<<"SHOWDOWN">>), Phrase(<<"CLASSIC">>),
               Phrase(<<"SHOT">>), Phrase(<<"SLATE">>)>>]

PRIORITY_ORDER == <<"H2H", "CASH", "MULTI", "GPP">>

\* the words of the pattern occur in the text from position `from` on, one
\* after the other
RECURSIVE OccursInOrder(_, _, _)
OccursInOrder(words, text, from) ==
    IF words = <<>> THEN TRUE
    ELSE \E i \in from..Len(text) :
            /\ Upper(text[i]) = Head(words)
            /\ OccursInOrder(Tail(words), text, i + 1)

\* pattern.search(contest_name)
Search(pattern, text) ==
    IF pattern.gap
    THEN OccursInOrder(pattern.words, text, 1)
    ELSE \E start \in 1..Len(text) :
            /\ start + Len(pattern.words) - 1 <= Len(text)
            /\ \A k \in 1..Len(pattern.words) :
                   Upper(text[start + k - 1]) = pattern.words[k]

\* ContestTypeClassifier._matches_type
matches_type(text, contest_type) ==
    \E i \in 1..Len(CONTEST_PATTERNS[contest_type]) :
        Search(CONTEST_PATTERNS[contest_type][i], text)

\* a classifier that lets the last matching type of the priority order win
classify_last_match(contest_name) ==
    IF ~Truthy(contest_name) THEN "UNKNOWN"
    ELSE LET hits == {i \in 1..Len(PRIORITY_ORDER) :
                         matches_type(contest_name.text, PRIORITY_ORDER[i])}
         IN  IF hits = {} THEN "UNKNOWN"
             ELSE PRIORITY_ORDER[CHOOSE i \in hits : \A j \in hits : i >= j]

\* ContestTypeClassifier.classify: the first type in priority order wins
classify(contest_name) ==
    IF ~Truthy(contest_name) THEN "UNKNOWN"
    ELSE LET hits == {i \in 1..Len(PRIORITY_ORDER) :
                         matches_type(contest_name.text, PRIORITY_ORDER[i])}
         IN  IF hits = {} THEN "UNKNOWN"
             ELSE PRIORITY_ORDER[CHOOSE i \in hits : \A j \in hits : i <= j]

-----------------------------------------------------------------------------
(* DFSEntry construction and properties, src/models/dfs_entry.py *)

valid_sources == {"DRAFTKINGS", "FANDUEL"}

VALID_CONTEST_TYPES == {"GPP", "CASH", "H2H", "MULTI", "UNKNOWN"}

\* a __post_init__ that stores the sport as it was given
DFSEntryPostInitKeepsSport(e) ==
    IF e.entry_fee < 0 THEN Raised("ValueError")
    ELSE IF e.winnings < 0 THEN Raised("ValueError")
    ELSE IF Upper(e.source) \notin valid_sources THEN Raised("ValueError")
    ELSE Ok([e EXCEPT !.source = Upper(e.source)])

\* DFSEntry.__post_init__ on the fields the caller passed: validates the
\* money fields and the source, then stores source and sport in upper case;
\* contest_type is stored as given
DFSEntryPostInit(e) ==
    IF e.entry_fee < 0 THEN Raised("ValueError")
    ELSE IF e.winnings < 0 THEN Raised("ValueError")
    ELSE IF Upper(e.source) \notin valid_sources THEN Raised("ValueError")
    ELSE Ok([e EXCEPT !.source = Upper(e.source), !.sport = Upper(e.sport)])

\* a classify_entry that does not hand the contest name on
classify_entry_drops_name(entry) ==
    LET made == DFSEntryPostInit(
                    [entry_id |-> entry.entry_id,
                     date |-> entry.date,
                     sport |-> entry.sport,
                     contest_type |->
                         classify(IF Truthy(entry.contest_name)
                                  THEN entry.contest_name ELSE Str(<<>>)),
                     entry_fee |-> entry.entry_fee,
                     winnings |-> entry.winnings,
                     points |-> entry.points,
                     source |-> entry.source,
                     contest_name |-> None])
    IN  IF made.status = "ok" THEN made.value ELSE made

\* ContestTypeClassifier.classify_entry: classify(entry.contest_name or "")
\* and a new DFSEntry constructed from the fields of the entry; a
\* ValueError of the constructor would leave the call
classify_entry(entry) ==
    LET made == DFSEntryPostInit(
                    [entry_id |-> entry.entry_id,
                     date |-> entry.date,
                     sport |-> entry.sport,
                     contest_type |->
                         classify(IF Truthy(entry.contest_name)
                                  THEN entry.contest_name ELSE Str(<<>>)),
                     entry_fee |-> entry.entry_fee,
                     winnings |-> entry.winnings,
                     points |-> entry.points,
                     source |-> entry.source,
                     contest_name |-> entry.contest_name])
    IN  IF made.status = "ok" THEN made.value ELSE made

\* ContestTypeClassifier.classify_entries
classify_entries(es) == [i \in 1..Len(es) |-> classify_entry(es[i])]

\* DFSEntry.roi, in 1/100 of a percent point
entry_roi(e) ==
    IF e.entry_fee = 0 THEN 0
    ELSE RoundHalfEven((e.winnings - e.entry_fee) * 100 * CentScale, e.entry_fee)

\* DFSEntry.profit, in cents
profit(e) == e.winnings - e.entry_fee

\* a win test that counts a break-even entry as a win
is_winning_entry_or_even(e) == e.winnings >= e.entry_fee

\* DFSEntry.is_winning_entry
is_winning_entry(e) == e.winnings > e.entry_fee

-----------------------------------------------------------------------------
(* The persona harness: a caller constructs PersonaScores directly, from raw
   scores and from metrics records, and maps the accepted ones to weights *)

MaxRaw == 16             \* raw scores range over 0..MaxRaw

\* scores a caller hands to the constructor, in 1/10000
ScoreGrid ==
    {-1, 0, 10, 20, 3000, 3300, 3333, 3400, 4000, 5000, 9990, 10000, 10001}

RawGrid == 0..MaxRaw

\* a record of metrics, as the dataclass holds it
MetricsRecord(gpp, cash, fee, roi, multi, diversity, variance, per_week) ==
    [total_entries |-> 10,
     entries_by_sport |-> <<>>,
     entries_by_contest_type |-> <<>>,
     total_invested |-> 0,
     total_winnings |-> 0,
     avg_entry_fee |-> fee,
     roi_overall |-> roi,
     gpp_percentage |-> gpp,
     cash_percentage |-> cash,
     h2h_percentage |-> 0,
     multi_entry_rate |-> multi,
     sport_diversity |-> diversity,
     stake_variance |-> variance,
     entries_per_week |-> per_week,
     most_active_day |-> "Sunday",
     recency_score |-> PctScale,
     confidence_score |-> 5000]

\* the metrics records score_personas is called with
MetricsGrid ==
    {MetricsRecord(gpp, cash, fee, roi, multi, diversity, variance, per_week) :
        gpp \in {0, 7300, 10000}, cash \in {0, 1000, 10000},
        fee \in {0, 100000, 9990000}, roi \in {-10000, 0, 1000},
        multi \in {10000, 20000, 200000}, diversity \in {0, 5000, 10000},
        variance \in {0, 20000}, per_week \in {100, 6000}}

InitPersona ==
    /\ clock = StartOfClock
    /\ entries = <<>>
    /\ scorer = NoScorer
    /\ calls = <<>>
    /\ Idle

restOfPersona == <<clock, entries, scorer, calls, driver, pc, trace,
                   classified, outcome, first>>

\* PersonaScore(bettor=..., fantasy=..., stats_nerd=...)
ConstructPersonaScore ==
    /\ op = "none"
    /\ \E bettor \in ScoreGrid, fantasy \in ScoreGrid, stats_nerd \in ScoreGrid :
        /\ op' = "PersonaScore"
        /\ args' = <<bettor, fantasy, stats_nerd>>
        /\ persona' = PersonaScore(bettor, fantasy, stats_nerd)
    /\ metrics' = NoResult
    /\ weights' = NoResult
    /\ UNCHANGED restOfPersona

\* PersonaScore.from_raw_scores(bettor_raw, fantasy_raw, stats_nerd_raw)
FromRawScores ==
    /\ op = "none"
    /\ \E bettor_raw \in RawGrid, fantasy_raw \in RawGrid,
          stats_nerd_raw \in RawGrid :
        /\ op' = "from_raw_scores"
        /\ args' = <<bettor_raw, fantasy_raw, stats_nerd_raw>>
        /\ persona' = from_raw_scores(bettor_raw, fantasy_raw, stats_nerd_raw)
    /\ metrics' = NoResult
    /\ weights' = NoResult
    /\ UNCHANGED restOfPersona

\* PersonaDetector().score_personas(metrics) on a record the dataclass accepts
ScorePersonas ==
    /\ op = "none"
    /\ \E m \in MetricsGrid :
        /\ BehavioralMetrics(m).status = "ok"
        /\ m.gpp_percentage + m.cash_percentage + m.h2h_percentage <= PctScale
        /\ op' = "score_personas"
        /\ args' = <<score_bettor(m), score_fantasy(m), score_stats_nerd(m)>>
        /\ metrics' = BehavioralMetrics(m)
        /\ persona' = score_personas(m)
    /\ weights' = NoResult
    /\ UNCHANGED restOfPersona

\* WeightMapper().calculate_weights(persona_scores)
CalculateWeights ==
    /\ persona.status = "ok"
    /\ weights = NoResult
    /\ weights' = calculate_weights(persona.value)
    /\ UNCHANGED <<op, args, metrics, persona>>
    /\ UNCHANGED restOfPersona

\* values and ranges handed to _score_signal, in 1/10000: ranges of the
\* signal tables and a range of a single value
SignalValues == {-3000, -2000, 0, 2500, 5000, 7000, 7300, 8500, 10000, 10001}
SignalRanges == {<<7000, 10000>>, <<0, 5000>>, <<-2000, 2000>>, <<5000, 5000>>}

\* detector._score_signal(value, signal_range) for two values and one range
ScoreSignal ==
    /\ op = "none"
    /\ \E low \in SignalValues, high \in SignalValues,
          signal_range \in SignalRanges :
          /\ low <= high
          /\ op' = "_score_signal"
          /\ args' = <<low, high, signal_range>>
          /\ outcome' = Outcome("scores",
                                <<score_signal(low, signal_range),
                                  score_signal(high, signal_range)>>)
    /\ UNCHANGED <<metrics, persona, weights>>
    /\ UNCHANGED <<clock, entries, scorer, calls, driver, pc, trace,
                   classified, first>>

NextPersona ==
    \/ ConstructPersonaScore
    \/ FromRawScores
    \/ ScorePersonas
    \/ CalculateWeights
    \/ ScoreSignal

SpecPersona == InitPersona /\ [][NextPersona]_vars

-----------------------------------------------------------------------------
(* Claims about personas and weights, checked under SpecPersona *)

\* C1: for every metrics record that satisfies the dataclass invariants,
\* score_personas returns a PersonaScore without raising, and its three
\* scores each lie in [0,1] and sum to 1.0 within 0.001.
C1_ScorePersonasAlwaysValid ==
    op = "score_personas" =>
        /\ persona.status = "ok"
        /\ \A score \in {persona.value.bettor, persona.value.fantasy,
                         persona.value.stats_nerd} :
               0 <= score /\ score <= ScoreOne
        /\ Abs(persona.value.bettor + persona.value.fantasy
               + persona.value.stats_nerd - ScoreOne) <= SumTolerance

\* C3: for every accepted PersonaScore and each of the eight patterns the
\* weight is exactly bettor*BETTOR_MODIFIERS + fantasy*FANTASY_MODIFIERS +
\* stats_nerd*STATS_NERD_MODIFIERS with no normalization, so a pure persona
\* reproduces its archetype's modifier vector.
C3_WeightsAreTheBlend ==
    weights.status # "none" =>
        /\ weights.status = "ok"
        /\ \A i \in 1..Len(PATTERN_NAMES) :
             LET c == PATTERN_NAMES[i]
                 p == persona.value
             IN  /\ weights.value[c] = p.bettor * BETTOR_MODIFIERS[c]
                                     + p.fantasy * FANTASY_MODIFIERS[c]
                                     + p.stats_nerd * STATS_NERD_MODIFIERS[c]
                 /\ (p.bettor = ScoreOne /\ p.fantasy = 0 /\ p.stats_nerd = 0)
                        => weights.value[c] = ScoreOne * BETTOR_MODIFIERS[c]
                 /\ (p.bettor = 0 /\ p.fantasy = ScoreOne /\ p.stats_nerd = 0)
                        => weights.value[c] = ScoreOne * FANTASY_MODIFIERS[c]
                 /\ (p.bettor = 0 /\ p.fantasy = 0 /\ p.stats_nerd = ScoreOne)
                        => weights.value[c] = ScoreOne * STATS_NERD_MODIFIERS[c]

\* weights were computed for a hybrid whose scores sum to 1.001
C3_Witness ==
    /\ weights.status = "ok"
    /\ persona.value.bettor = 5000 /\ persona.value.fantasy = 5000
    /\ persona.value.stats_nerd = 10

MinModifier(c) ==
    Min(BETTOR_MODIFIERS[c], Min(FANTASY_MODIFIERS[c], STATS_NERD_MODIFIERS[c]))

MaxModifier(c) ==
    Max(BETTOR_MODIFIERS[c], Max(FANTASY_MODIFIERS[c], STATS_NERD_MODIFIERS[c]))

ViolatesInvariants(bettor, fantasy, stats_nerd) ==
    \/ \E score \in {bettor, fantasy, stats_nerd} : score < 0 \/ score > ScoreOne
    \/ bettor + fantasy + stats_nerd - ScoreOne > SumTolerance
    \/ ScoreOne - (bettor + fantasy + stats_nerd) > SumTolerance

\* C5: constructing a PersonaScore fails with a validation error if and only
\* if some score is below 0 or above 1 or the sum differs from 1 by more than
\* 0.001; an accepted instance holds the scores it was given, unclamped.
C5_RejectIffInvalid ==
    op = "PersonaScore" =>
        /\ persona.status = "ValueError"
               <=> ViolatesInvariants(args[1], args[2], args[3])
        /\ persona.status # "ValueError" =>
               persona = Ok([bettor |-> args[1], fantasy |-> args[2],
                             stats_nerd |-> args[3]])

\* a construction whose sum is off by 0.002 with every score in range was
\* rejected
C5_Witness ==
    /\ op = "PersonaScore"
    /\ args = <<0, 20, 10000>>
    /\ persona.status = "ValueError"

C24_SignalScore ==
    /\ op = "_score_signal" =>
           LET min_val == args[3][1]
               max_val == args[3][2]
           IN  /\ \A k \in 1..2 :
                      LET value == args[k]
                          score == outcome.body[k]
                      IN  /\ value < min_val => score = 0
                          /\ value > max_val => score = SignalOne
                          /\ (min_val <= value /\ value <= max_val
                                  /\ min_val = max_val) => score = SignalOne
                          /\ (min_val <= value /\ value <= max_val
                                  /\ min_val < max_val) =>
                                 \* the quotient in 1/10000, to the nearest unit
                                 2 * Abs(score * (max_val - min_val)
                                         - (value - min_val) * SignalOne)
                                     <= max_val - min_val
                          /\ 0 <= score /\ score <= SignalOne
               /\ outcome.body[1] <= outcome.body[2]
    /\ op = "score_personas" =>
           \A k \in 1..3 : 0 <= args[k] /\ args[k] <= 12 * SignalOne

\* a value inside a range of a single value scored 1, a smaller one 0
C24_Witness ==
    /\ op = "_score_signal"
    /\ args = <<2500, 5000, <<5000, 5000>>>>
    /\ outcome.body = <<0, SignalOne>>

\* raw persona scores of a record, one of them at the upper end
C24_WitnessRaw ==
    /\ op = "score_personas"
    /\ \E k \in 1..3 : args[k] = 12 * SignalOne

-----------------------------------------------------------------------------
(* The pipeline drivers: parse_csv of app.py and main of demo.py, from the
   point where the parser has returned its entries *)

\* entries as a parser returns them: contest_type is always "UNKNOWN"
ParsedPool ==
    { DFSEntry("1", Day(0, 0), "NFL", "UNKNOWN", 1000, 0, GppName),
      DFSEntry("2", Day(1, 1), "NFL", "UNKNOWN", 1000, 2500, CashName),
      DFSEntry("3", Day(8, 0), "NBA", "UNKNOWN", 500, 0,
               Str(<<"H2H", "$5">>)),
      DFSEntry("4", Day(3, 0), "NFL", "UNKNOWN", 2500, 0,
               Str(<<"NFL", "20-Max", "GPP">>)),
      DFSEntry("5", Day(FutureDay, 0), "MLB", "UNKNOWN", 0, 500,
               Str(<<"Beginner", "Contest">>)) }

ParsedBatches == SeqsUpTo(ParsedPool, MaxBatch)

Drivers == {"app", "demo"}

\* the profile demo.py prints at its end
DemoProfile(es, m, p, w) ==
    [platform |-> "DRAFTKINGS",
     entries_count |-> Len(es),
     persona_scores |-> PersonaScoreToDict(p),
     pattern_weights |-> PatternWeightsToDict(w),
     key_metrics |->
        [roi_overall |-> DecimalStr(m.roi_overall, 2),
         sport_diversity |-> DecimalStr(m.sport_diversity, 4),
         confidence_score |-> DecimalStr(m.confidence_score, 4)]]

\* app.py checks the batch right after parsing; demo.py goes on to classify
InitDriver ==
    /\ clock = StartOfClock
    /\ entries \in ParsedBatches
    /\ scorer = NoScorer
    /\ calls = <<>>
    /\ driver \in Drivers
    /\ pc = IF driver = "app" THEN "validate" ELSE "classify"
    /\ trace = <<>> /\ classified = <<>>
    /\ metrics = NoResult /\ persona = NoResult /\ weights = NoResult
    /\ outcome = NoOutcome /\ op = "none" /\ args = <<>> /\ first = <<>>

restOfDriver == <<entries, calls, driver, op, args, first>>

\* app.py: if not entries: raise HTTPException(400, "No valid entries ...")
ValidateNonEmpty ==
    /\ driver = "app" /\ pc = "validate"
    /\ trace' = Append(trace, "validate")
    /\ IF entries = <<>>
       THEN /\ pc' = "done"
            /\ outcome' = Outcome("HTTP 400",
                                  <<"No", "valid", "entries", "found", "in", "CSV">>)
       ELSE /\ pc' = "classify"
            /\ UNCHANGED outcome
    /\ UNCHANGED <<clock, scorer, classified, metrics, persona, weights>>
    /\ UNCHANGED restOfDriver

\* classified_entries = ContestTypeClassifier().classify_entries(entries)
Classify ==
    /\ driver \in Drivers /\ pc = "classify"
    /\ trace' = Append(trace, "classify")
    /\ classified' = classify_entries(entries)
    /\ pc' = "score"
    /\ UNCHANGED <<clock, scorer, metrics, persona, weights, outcome>>
    /\ UNCHANGED restOfDriver

\* scorer = BehavioralScorer(); metrics = scorer.calculate_metrics(...);
\* neither driver catches a ValueError of this stage
Score ==
    /\ driver \in Drivers /\ pc = "score"
    /\ trace' = Append(trace, "score")
    /\ scorer' = NewScorer(NoRef, clock)
    /\ metrics' = calculate_metrics(scorer', classified)
    /\ IF metrics'.status = "ok"
       THEN pc' = "detect" /\ UNCHANGED outcome
       ELSE pc' = "done" /\ outcome' = Outcome(metrics'.status, <<>>)
    /\ UNCHANGED <<clock, classified, persona, weights>>
    /\ UNCHANGED restOfDriver

\* persona_score = PersonaDetector().score_personas(metrics)
Detect ==
    /\ driver \in Drivers /\ pc = "detect"
    /\ trace' = Append(trace, "detect")
    /\ persona' = score_personas(metrics.value)
    /\ IF persona'.status = "ok"
       THEN pc' = "map" /\ UNCHANGED outcome
       ELSE pc' = "done" /\ outcome' = Outcome(persona'.status, <<>>)
    /\ UNCHANGED <<clock, scorer, classified, metrics, weights>>
    /\ UNCHANGED restOfDriver

\* weights = WeightMapper().calculate_weights(persona_score)
Map ==
    /\ driver \in Drivers /\ pc = "map"
    /\ trace' = Append(trace, "map")
    /\ weights' = calculate_weights(persona.value)
    /\ pc' = "respond"
    /\ UNCHANGED <<clock, scorer, classified, metrics, persona, outcome>>
    /\ UNCHANGED restOfDriver

\* app.py builds its response with metrics.model_dump(mode='json'), which a
\* dataclass does not have; demo.py prints the profile and returns 0
Respond ==
    /\ driver \in Drivers /\ pc = "respond"
    /\ outcome' = IF driver = "app"
                  THEN Outcome("AttributeError", <<>>)
                  ELSE Outcome("profile",
                               DemoProfile(entries, metrics.value,
                                           persona.value, weights.value))
    /\ pc' = "done"
    /\ UNCHANGED <<clock, scorer, classified, metrics, persona, weights, trace>>
    /\ UNCHANGED restOfDriver

NextDriver ==
    \/ Tick
    \/ ValidateNonEmpty
    \/ Classify
    \/ Score
    \/ Detect
    \/ Map
    \/ Respond

SpecDriver == InitDriver /\ [][NextDriver]_vars

-----------------------------------------------------------------------------
(* Claims about the drivers, checked under SpecDriver *)

StageOrder == <<"validate", "classify", "score", "detect", "map">>

\* the stages in the trace are distinct and follow the fixed order
FollowsStageOrder(t) ==
    \A i \in 1..Len(t) :
        /\ \E k \in 1..Len(StageOrder) : t[i] = StageOrder[k]
        /\ \A j \in 1..Len(t) : i < j =>
              \E k \in 1..Len(StageOrder), l \in 1..Len(StageOrder) :
                  k < l /\ t[i] = StageOrder[k] /\ t[j] = StageOrder[l]

Ran(stage) == \E i \in 1..Len(trace) : trace[i] = stage

\* C7: the driver runs validate-non-empty, classify, score, detect and map
\* in this order, each stage on its predecessor's output; on an empty batch
\* it stops with a "no usable data" failure before classify, score, detect
\* or map runs, and never returns a profile.
C7_OrderedAndStopsOnEmpty ==
    /\ FollowsStageOrder(trace)
    /\ Ran("classify") => classified = classify_entries(entries)
    /\ Ran("score") => metrics = calculate_metrics(scorer, classified)
    /\ Ran("detect") => persona = score_personas(metrics.value)
    /\ Ran("map") => weights = calculate_weights(persona.value)
    /\ entries = <<>> =>
          /\ ~Ran("classify") /\ ~Ran("score") /\ ~Ran("detect") /\ ~Ran("map")
          /\ outcome.kind # "profile"
          /\ pc = "done" => outcome.kind = "HTTP 400"

-----------------------------------------------------------------------------
(* Running the four stages twice as a library caller does, with an injected
   reference time, while the wall clock moves on *)

InitRerun ==
    /\ clock = StartOfClock
    /\ entries \in ParsedBatches
    /\ scorer = NoScorer
    /\ calls = <<>>
    /\ driver = "library"
    /\ pc = "classify"
    /\ trace = <<>> /\ classified = <<>>
    /\ metrics = NoResult /\ persona = NoResult /\ weights = NoResult
    /\ outcome = NoOutcome /\ op = "none"
    /\ \E r \in InjectedRefs : args = <<r>>
    /\ first = <<>>

\* what one run produced
RunOutput ==
    [classified |-> classified, metrics |-> metrics, persona |-> persona,
     weights |-> weights, outcome |-> outcome, built_at |-> scorer.built_at]

LibClassify ==
    /\ driver = "library" /\ pc = "classify"
    /\ trace' = Append(trace, "classify")
    /\ classified' = classify_entries(entries)
    /\ pc' = "score"
    /\ UNCHANGED <<clock, scorer, metrics, persona, weights, outcome>>
    /\ UNCHANGED restOfDriver

\* BehavioralScorer(reference_date=r).calculate_metrics(classified)
LibScore ==
    /\ driver = "library" /\ pc = "score"
    /\ trace' = Append(trace, "score")
    /\ scorer' = NewScorer(Ref(args[1]), clock)
    /\ metrics' = calculate_metrics(scorer', classified)
    /\ IF metrics'.status = "ok"
       THEN pc' = "detect" /\ UNCHANGED outcome
       ELSE pc' = "finished" /\ outcome' = Outcome(metrics'.status, <<>>)
    /\ UNCHANGED <<clock, classified, persona, weights>>
    /\ UNCHANGED restOfDriver

LibDetect ==
    /\ driver = "library" /\ pc = "detect"
    /\ trace' = Append(trace, "detect")
    /\ persona' = score_personas(metrics.value)
    /\ IF persona'.status = "ok"
       THEN pc' = "map" /\ UNCHANGED outcome
       ELSE pc' = "finished" /\ outcome' = Outcome(persona'.status, <<>>)
    /\ UNCHANGED <<clock, scorer, classified, metrics, weights>>
    /\ UNCHANGED restOfDriver

\* the weights, and the three results serialized with to_dict
LibMap ==
    /\ driver = "library" /\ pc = "map"
    /\ trace' = Append(trace, "map")
    /\ weights' = calculate_weights(persona.value)
    /\ outcome' = Outcome("profile",
                          DemoProfile(entries, metrics.value, persona.value,
                                      weights'.value))
    /\ pc' = "finished"
    /\ UNCHANGED <<clock, scorer, classified, metrics, persona>>
    /\ UNCHANGED restOfDriver

\* the caller keeps the first run's results and starts over
LibRunAgain ==
    /\ driver = "library" /\ pc = "finished" /\ first = <<>>
    /\ first' = <<RunOutput>>
    /\ pc' = "classify"
    /\ trace' = <<>> /\ classified' = <<>>
    /\ metrics' = NoResult /\ persona' = NoResult /\ weights' = NoResult
    /\ outcome' = NoOutcome
    /\ scorer' = NoScorer
    /\ UNCHANGED <<clock, entries, calls, driver, op, args>>

LibDone ==
    /\ driver = "library" /\ pc = "finished" /\ first # <<>>
    /\ pc' = "done"
    /\ UNCHANGED <<clock, scorer, classified, metrics, persona, weights,
                   outcome, trace>>
    /\ UNCHANGED restOfDriver

NextRerun ==
    \/ Tick
    \/ LibClassify
    \/ LibScore
    \/ LibDetect
    \/ LibMap
    \/ LibRunAgain
    \/ LibDone

SpecRerun == InitRerun /\ [][NextRerun]_vars

\* C9: two runs of classify, score, detect and map on the same batch with
\* the same injected reference time give identical entries, metrics,
\* persona scores, weights and serialized output, whatever the wall clock
\* did in between.
C9_RerunIsIdentical ==
    pc = "done" =>
        /\ first[1].classified = classified
        /\ first[1].metrics = metrics
        /\ first[1].persona = persona
        /\ first[1].weights = weights
        /\ first[1].outcome = outcome

\* two complete runs on a non-empty batch whose scorers were built at
\* different wall-clock days
C9_Witness ==
    /\ pc = "done"
    /\ entries # <<>>
    /\ weights.status = "ok"
    /\ Days(first[1].built_at) # Days(scorer.built_at)

-----------------------------------------------------------------------------
(* CSVValidator.sanitize_field, src/utils/csv_validator.py.  A string is the
   sequence of its characters. *)

\* str.startswith
StartsWith(s, old) == Len(s) >= Len(old) /\ SubSeq(s, 1, Len(old)) = old

\* str.replace(old, ""): the occurrences of old found scanning left to
\* right, without overlap, are left out; what the removal brings together
\* is not scanned again
RECURSIVE Remove(_, _)
Remove(s, old) ==
    IF s = <<>> THEN <<>>
    ELSE IF StartsWith(s, old)
    THEN Remove(SubSeq(s, Len(old) + 1, Len(s)), old)
    ELSE <<Head(s)>> \o Remove(Tail(s), old)

\* str.strip
RECURSIVE Strip(_)
Strip(s) ==
    IF s = <<>> THEN s
    ELSE IF Head(s) = " " THEN Strip(Tail(s))
    ELSE IF s[Len(s)] = " " THEN Strip(SubSeq(s, 1, Len(s) - 1))
    ELSE s

dangerous_chars ==
    <<<<"'">>, <<"\"">>, <<";">>, <<"-", "-">>, <<"/", "*">>, <<"*", "/">>>>

\* result = result.replace(char, "") for the dangerous sequences from
\* position k on, in the order of the list
RECURSIVE RemoveEach(_, _)
RemoveEach(s, k) ==
    IF k > Len(dangerous_chars) THEN s
    ELSE RemoveEach(Remove(s, dangerous_chars[k]), k + 1)

\* CSVValidator.sanitize_field
sanitize_field(value) ==
    IF value = <<>> THEN value
    ELSE Strip(RemoveEach(value, 1))

-----------------------------------------------------------------------------
(* The record harness: a caller constructs the model records directly, reads
   their properties, serializes them and assigns to their attributes *)

\* the Decimal fields of BehavioralMetrics and the decimal places each is
\* held with
DecimalPlaces ==
    [total_invested |-> 2, total_winnings |-> 2, avg_entry_fee |-> 4,
     roi_overall |-> 2, gpp_percentage |-> 4, cash_percentage |-> 4,
     h2h_percentage |-> 4, multi_entry_rate |-> 4, sport_diversity |-> 4,
     stake_variance |-> 4, entries_per_week |-> 2, recency_score |-> 4,
     confidence_score |-> 4]

\* BehavioralMetrics.net_profit
net_profit(m) == m.total_winnings - m.total_invested

\* BehavioralMetrics.is_profitable
is_profitable(m) == m.total_winnings > m.total_invested

\* BehavioralMetrics.primary_sport: max(d, key=d.get)
primary_sport(m) ==
    IF m.entries_by_sport = <<>> THEN "UNKNOWN"
    ELSE MostCommon(m.entries_by_sport).key

\* BehavioralMetrics.primary_contest_type
primary_contest_type(m) ==
    IF m.entries_by_contest_type = <<>> THEN "UNKNOWN"
    ELSE MostCommon(m.entries_by_contest_type).key

\* BehavioralMetrics.to_dict: the Decimal fields as text, the others as they
\* are, and the computed properties
BehavioralMetricsToDict(m) ==
    [name \in DOMAIN m \cup {"net_profit", "is_profitable", "primary_sport",
                             "primary_contest_type"} |->
        CASE name \in DOMAIN DecimalPlaces ->
                 DecimalStr(m[name], DecimalPlaces[name])
          [] name = "net_profit" -> DecimalStr(net_profit(m), 2)
          [] name = "is_profitable" -> is_profitable(m)
          [] name = "primary_sport" -> primary_sport(m)
          [] name = "primary_contest_type" -> primary_contest_type(m)
          [] OTHER -> m[name]]

\* BehavioralMetrics.from_dict: the seventeen fields read back and handed to
\* the constructor
BehavioralMetricsFromDict(data) ==
    BehavioralMetrics(
        [name \in {"total_entries", "entries_by_sport",
                   "entries_by_contest_type", "most_active_day"}
                  \cup DOMAIN DecimalPlaces |->
            IF name \in DOMAIN DecimalPlaces THEN ParseDecimal(data[name])
            ELSE data[name]])

\* PersonaScore.from_dict
PersonaScoreFromDict(data) ==
    PersonaScore(ParseDecimal(data.bettor), ParseDecimal(data.fantasy),
                 ParseDecimal(data.stats_nerd))

\* @dataclass without frozen=True: the generated class keeps the plain
\* attribute assignment of object
BehavioralMetrics_frozen == FALSE
PatternWeights_frozen == FALSE

\* a record every check of BehavioralMetrics accepts
BaseMetrics == MetricsRecord(5000, 2500, 100000, 0, 20000, 5000, 0, 100)

NumericFields ==
    {"total_entries", "total_invested", "total_winnings", "avg_entry_fee",
     "gpp_percentage", "cash_percentage", "h2h_percentage", "sport_diversity",
     "recency_score", "confidence_score"}

\* values a caller hands to a numeric field, in the unit of the field
FieldGrid == {-1, 0, 2500, 10000, 10001}

\* the records a caller hands to the constructor: BaseMetrics with one field
\* replaced
MetricsArgs ==
    {[BaseMetrics EXCEPT ![f] = v] : f \in NumericFields, v \in FieldGrid}

InitRecords ==
    /\ clock = StartOfClock
    /\ entries = <<>>
    /\ scorer = NoScorer
    /\ calls = <<>>
    /\ Idle

restOfRecords == <<clock, entries, calls, driver, pc, trace, first>>

\* BehavioralMetrics(total_entries=..., ...)
ConstructMetrics ==
    /\ op = "none"
    /\ \E m \in MetricsArgs :
        /\ op' = "BehavioralMetrics"
        /\ args' = <<m>>
        /\ metrics' = BehavioralMetrics(m)
    /\ UNCHANGED <<scorer, classified, persona, weights, outcome>>
    /\ UNCHANGED restOfRecords

\* the fields a caller hands to DFSEntry(...)
EntryArgs ==
    {[DFSEntry("1", Day(0, 0), sport, ctype, fee, win, GppName)
         EXCEPT !.source = source] :
        sport \in {"nfl", "NBA"},
        ctype \in {"GPP", "CASH", "H2H", "MULTI", "UNKNOWN", "BOGUS", "gpp"},
        fee \in {-1, 0, 300, 1000},
        win \in {-1, 0, 100, 1000, 2500},
        source \in {"DRAFTKINGS", "draftkings", "FanDuel", "Yahoo"}}

\* e = DFSEntry(...); the caller then reads e.roi, e.profit and
\* e.is_winning_entry
ConstructEntry ==
    /\ op = "none"
    /\ \E e \in EntryArgs :
        LET made == DFSEntryPostInit(e)
        IN  /\ op' = "DFSEntry"
            /\ args' = <<e>>
            /\ classified' = IF made.status = "ok" THEN <<made.value>> ELSE <<>>
            /\ outcome' =
                 IF made.status = "ok"
                 THEN Outcome("ok", [roi |-> entry_roi(made.value),
                                     profit |-> profit(made.value),
                                     is_winning_entry |->
                                         is_winning_entry(made.value)])
                 ELSE Outcome(made.status, <<>>)
    /\ UNCHANGED <<scorer, metrics, persona, weights>>
    /\ UNCHANGED restOfRecords

\* BehavioralScorer(reference_date=r).calculate_metrics([e]) on the entry
\* that was constructed
ScoreEntry ==
    /\ op = "DFSEntry"
    /\ classified # <<>>
    /\ metrics = NoResult
    /\ \E r \in InjectedRefs :
        /\ scorer' = NewScorer(Ref(r), clock)
        /\ metrics' = calculate_metrics(scorer', classified)
    /\ UNCHANGED <<op, args, classified, persona, weights, outcome>>
    /\ UNCHANGED restOfRecords

\* weights a caller hands to a field of PatternWeights, in 1/100000
WeightGrid == {-1, 0, 50000, 150000}

\* keyword arguments of PatternWeights(...): some fields given, the others
\* left to their default
WeightsArgs ==
    UNION {[given -> WeightGrid] :
              given \in SUBSET {"line_movement", "contrarian_plays"}}

\* PatternWeights(**kwargs)
ConstructWeights ==
    /\ op = "none"
    /\ \E kwargs \in WeightsArgs :
        /\ op' = "PatternWeights"
        /\ args' = <<kwargs>>
        /\ weights' = PatternWeights(
               [name \in PatternSet |->
                   IF name \in DOMAIN kwargs THEN kwargs[name] ELSE WeightOne])
    /\ UNCHANGED <<scorer, classified, metrics, persona, outcome>>
    /\ UNCHANGED restOfRecords

\* PatternWeights.neutral()
NeutralWeights ==
    /\ op = "none"
    /\ op' = "neutral"
    /\ args' = <<>>
    /\ weights' = neutral
    /\ UNCHANGED <<scorer, classified, metrics, persona, outcome>>
    /\ UNCHANGED restOfRecords

\* PatternWeights.from_dict(data)
WeightsFromDict ==
    /\ op = "none"
    /\ \E kwargs \in WeightsArgs :
        LET data == [name \in DOMAIN kwargs |-> DecimalStr(kwargs[name], 5)]
        IN  /\ op' = "PatternWeights.from_dict"
            /\ args' = <<data>>
            /\ weights' = PatternWeightsFromDict(data)
    /\ UNCHANGED <<scorer, classified, metrics, persona, outcome>>
    /\ UNCHANGED restOfRecords

\* the caller reads the properties of the PersonaScore it constructed
ReadPersonaProperties ==
    /\ op = "PersonaScore"
    /\ persona.status = "ok"
    /\ outcome = NoOutcome
    /\ outcome' = Outcome("properties",
                          [primary_persona |-> primary_persona(persona.value),
                           secondary_persona |-> secondary_persona(persona.value),
                           scores_ranked |-> scores_ranked(persona.value),
                           is_hybrid |-> is_hybrid(persona.value),
                           confidence |-> confidence(persona.value)])
    /\ UNCHANGED <<op, args, scorer, classified, metrics, persona, weights>>
    /\ UNCHANGED restOfRecords

\* contest names for the classifier: a missing name, the empty name and the
\* names of up to MaxWords words
MaxWords == 3
NameWords == {"h2h", "H2H", "Double", "Up", "50/50", "20-Max", "gpp", "$20K",
              "NFL"}
ContestNames ==
    {None} \cup {Str(words) : words \in SeqsUpTo(NameWords, MaxWords)}

\* ContestTypeClassifier().classify(contest_name)
ClassifyName ==
    /\ op = "none"
    /\ \E name \in ContestNames :
          /\ op' = "classify"
          /\ args' = <<name>>
          /\ outcome' = Outcome("classify", classify(name))
    /\ UNCHANGED <<scorer, classified, metrics, persona, weights>>
    /\ UNCHANGED restOfRecords

\* BehavioralMetrics.from_dict(m.to_dict()) for the metrics held
RoundTripMetrics ==
    /\ metrics.status = "ok"
    /\ outcome.kind # "BehavioralMetrics.round_trip"
    /\ outcome' = Outcome("BehavioralMetrics.round_trip",
                     BehavioralMetricsFromDict(
                         BehavioralMetricsToDict(metrics.value)))
    /\ UNCHANGED <<op, args, scorer, classified, metrics, persona, weights>>
    /\ UNCHANGED restOfRecords

\* PersonaScore.from_dict(p.to_dict()) for the score held
RoundTripPersona ==
    /\ persona.status = "ok"
    /\ outcome.kind # "PersonaScore.round_trip"
    /\ outcome' = Outcome("PersonaScore.round_trip",
                     PersonaScoreFromDict(PersonaScoreToDict(persona.value)))
    /\ UNCHANGED <<op, args, scorer, classified, metrics, persona, weights>>
    /\ UNCHANGED restOfRecords

\* PatternWeights.from_dict(w.to_dict()) for the weights held
RoundTripWeights ==
    /\ weights.status = "ok"
    /\ outcome.kind # "PatternWeights.round_trip"
    /\ outcome' = Outcome("PatternWeights.round_trip",
                     PatternWeightsFromDict(
                         PatternWeightsToDict(weights.value)))
    /\ UNCHANGED <<op, args, scorer, classified, metrics, persona, weights>>
    /\ UNCHANGED restOfRecords

\* names a caller asks a weight for, and base scores in tenths
LookupNames == PatternSet \cup {"to_dict", "weights_ranked", "bogus"}
BaseScores == {0, 20}

\* w.get_weight(pattern_name)
GetWeight ==
    /\ op \in {"PatternWeights", "neutral"}
    /\ weights.status = "ok"
    /\ outcome = NoOutcome
    /\ \E pattern_name \in LookupNames :
          outcome' = Outcome("get_weight",
                             [pattern_name |-> pattern_name,
                              result |-> get_weight(weights.value,
                                                    pattern_name)])
    /\ UNCHANGED <<op, args, scorer, classified, metrics, persona, weights>>
    /\ UNCHANGED restOfRecords

\* w.apply_to_score(pattern_name, base_score)
ApplyToScore ==
    /\ op \in {"PatternWeights", "neutral"}
    /\ weights.status = "ok"
    /\ outcome = NoOutcome
    /\ \E pattern_name \in LookupNames, base_score \in BaseScores :
          outcome' = Outcome("apply_to_score",
                             [pattern_name |-> pattern_name,
                              base_score |-> base_score,
                              result |-> apply_to_score(weights.value,
                                                        pattern_name,
                                                        base_score)])
    /\ UNCHANGED <<op, args, scorer, classified, metrics, persona, weights>>
    /\ UNCHANGED restOfRecords

\* the fields handed to sanitize_field: strings of up to MaxField characters
MaxField == 4
FieldChars == {"'", ";", "-", "/", "*", " ", "a"}
FieldValues == SeqsUpTo(FieldChars, MaxField)

\* CSVValidator().sanitize_field(value)
SanitizeField ==
    /\ op = "none"
    /\ \E value \in FieldValues :
          /\ op' = "sanitize_field"
          /\ args' = <<value>>
          /\ outcome' = Outcome("str", sanitize_field(value))
    /\ UNCHANGED <<scorer, classified, metrics, persona, weights>>
    /\ UNCHANGED restOfRecords

NextRecords ==
    \/ ConstructMetrics
    \/ ConstructEntry
    \/ ScoreEntry
    \/ ConstructWeights
    \/ NeutralWeights
    \/ WeightsFromDict
    \/ ConstructPersonaScore
    \/ CalculateWeights
    \/ ReadPersonaProperties
    \/ ClassifyName
    \/ RoundTripMetrics
    \/ RoundTripPersona
    \/ RoundTripWeights
    \/ GetWeight
    \/ ApplyToScore
    \/ SanitizeField

SpecRecords == InitRecords /\ [][NextRecords]_vars

-----------------------------------------------------------------------------
(* Claims about the records, checked under SpecRecords *)

PercentageFields ==
    {"gpp_percentage", "cash_percentage", "h2h_percentage", "sport_diversity",
     "recency_score", "confidence_score"}

MoneyFields == {"total_invested", "total_winnings", "avg_entry_fee"}

\* C11: constructing a BehavioralMetrics with a negative total_entries, a
\* percentage-scale field outside [0,1] or a negative money field fails
\* with a validation error.
C11_RejectsOutOfInvariant ==
    op = "BehavioralMetrics" =>
        LET m == args[1]
        IN  (\/ m.total_entries < 0
             \/ \E f \in PercentageFields : m[f] < 0 \/ m[f] > PctScale
             \/ \E f \in MoneyFields : m[f] < 0)
                => metrics.status = "ValueError"

C13_ContestTypeValidated ==
    op = "DFSEntry" =>
        /\ args[1].contest_type \notin VALID_CONTEST_TYPES
               => outcome.kind = "ValueError"
        /\ metrics.status # "none" =>
               \A i \in 1..Len(classified) :
                   classified[i].contest_type \in VALID_CONTEST_TYPES

\* C17: roi is ((winnings - entry_fee) / entry_fee) * 100 when entry_fee > 0
\* and exactly 0 when entry_fee = 0; profit is winnings - entry_fee;
\* is_winning_entry holds exactly when winnings > entry_fee.
C17_EntryProperties ==
    (op = "DFSEntry" /\ outcome.kind = "ok") =>
        LET e == classified[1]
            r == outcome.body
        IN  /\ e.entry_fee = 0 => r.roi = 0
            /\ e.entry_fee > 0 =>
                  \* r.roi is the quotient in 1/100, to the nearest unit
                  2 * Abs(r.roi * e.entry_fee
                          - (e.winnings - e.entry_fee) * 100 * CentScale)
                      <= e.entry_fee
            /\ r.profit = e.winnings - e.entry_fee
            /\ r.is_winning_entry <=> e.winnings > e.entry_fee

\* a break-even entry and its properties
C17_Witness ==
    /\ op = "DFSEntry" /\ outcome.kind = "ok"
    /\ classified[1].entry_fee = 1000 /\ classified[1].winnings = 1000
    /\ outcome.body.roi = 0 /\ outcome.body.profit = 0
    /\ ~outcome.body.is_winning_entry

\* C14: every PatternWeights has all eight weights >= 0: a construction with
\* a negative weight fails, neutral() and the defaults give exactly 1.0,
\* from_dict fills every missing pattern with 1.0, and the weights
\* calculate_weights builds from an accepted PersonaScore are never rejected.
C14_WeightsNeverNegative ==
    /\ weights.status = "ok" =>
           \A name \in PatternSet : weights.value[name] >= 0
    /\ op = "PatternWeights" =>
           /\ weights.status = "ValueError"
                  <=> \E name \in DOMAIN args[1] : args[1][name] < 0
           /\ weights.status = "ok" =>
                  \A name \in PatternSet \ DOMAIN args[1] :
                      weights.value[name] = WeightOne
    /\ op = "neutral" =>
           weights = Ok([name \in PatternSet |-> WeightOne])
    /\ op = "PatternWeights.from_dict" =>
           /\ weights.status = "ValueError"
                  <=> \E name \in DOMAIN args[1] : args[1][name].sign = "-"
           /\ weights.status = "ok" =>
                  \A name \in PatternSet :
                      weights.value[name] =
                          IF name \in DOMAIN args[1]
                          THEN ParseDecimal(args[1][name]) ELSE WeightOne
    /\ (op = "PersonaScore" /\ persona.status = "ok") =>
           weights.status \in {"none", "ok"}

\* a construction that gives a negative weight to the last pattern only
C14_Witness ==
    /\ op = "PatternWeights"
    /\ DOMAIN args[1] = {"contrarian_plays"}
    /\ args[1]["contrarian_plays"] = -1
    /\ weights.status = "ValueError"

\* the score a PersonaScore holds for a persona
ScoreOf(p, name) ==
    CASE name = "BETTOR" -> p.bettor
      [] name = "FANTASY" -> p.fantasy
      [] name = "STATS_NERD" -> p.stats_nerd

PersonaPriority == <<"BETTOR", "FANTASY", "STATS_NERD">>

\* C15: primary_persona holds the maximum score, ties going to the first of
\* Bettor, Fantasy, StatsNerd; secondary_persona is the second of the
\* descending ranking, differs from primary_persona and scores at least as
\* much as the third persona.
C15_PrimaryAndSecondary ==
    outcome.kind = "properties" =>
        LET p == persona.value
            primary == outcome.body.primary_persona
            secondary == outcome.body.secondary_persona
        IN  /\ \A i \in 1..3 :
                   /\ ScoreOf(p, PersonaPriority[i]) <= ScoreOf(p, primary)
                   /\ ScoreOf(p, PersonaPriority[i]) = ScoreOf(p, primary) =>
                          \E k \in 1..i : PersonaPriority[k] = primary
            /\ secondary = outcome.body.scores_ranked[2][1]
            /\ primary = outcome.body.scores_ranked[1][1]
            /\ \A k \in 1..2 :
                   outcome.body.scores_ranked[k][2]
                       >= outcome.body.scores_ranked[k + 1][2]
            /\ secondary # primary
            /\ \A i \in 1..3 :
                   PersonaPriority[i] \notin {primary, secondary} =>
                       ScoreOf(p, secondary) >= ScoreOf(p, PersonaPriority[i])

\* the properties of a PersonaScore whose two highest scores are equal
C15_Witness ==
    /\ outcome.kind = "properties"
    /\ persona.value.bettor = 0
    /\ persona.value.fantasy = 5000 /\ persona.value.stats_nerd = 5000
    /\ outcome.body.primary_persona = "FANTASY"
    /\ outcome.body.secondary_persona = "STATS_NERD"

\* C16: is_hybrid holds exactly when at least two of the three scores are
\* strictly greater than 0.3, and confidence is the maximum score minus the
\* minimum score.
C16_HybridAndConfidence ==
    outcome.kind = "properties" =>
        LET p == persona.value
            high(x) == x > 3000
        IN  /\ outcome.body.is_hybrid <=>
                   \/ high(p.bettor) /\ high(p.fantasy)
                   \/ high(p.bettor) /\ high(p.stats_nerd)
                   \/ high(p.fantasy) /\ high(p.stats_nerd)
            /\ \A x \in {p.bettor, p.fantasy, p.stats_nerd} :
                   \A y \in {p.bettor, p.fantasy, p.stats_nerd} :
                       x - y <= outcome.body.confidence
            /\ \E x \in {p.bettor, p.fantasy, p.stats_nerd} :
                   \E y \in {p.bettor, p.fantasy, p.stats_nerd} :
                       x - y = outcome.body.confidence

\* the properties of a PersonaScore with two scores exactly at 0.3
C16_Witness ==
    /\ outcome.kind = "properties"
    /\ persona.value.bettor = 3000 /\ persona.value.fantasy = 3000
    /\ persona.value.stats_nerd = 4000
    /\ ~outcome.body.is_hybrid
    /\ outcome.body.confidence = 1000

\* the priority the categories are tried in
CategoryPriority == <<"H2H", "CASH", "MULTI", "GPP">>

\* C18: classify returns the first category, in the order H2H, CASH, MULTI,
\* GPP, one of whose patterns matches the name in any letter case, and UNKNOWN
\* when none matches or the name is empty or missing; how many patterns match
\* plays no part.
C18_FirstCategoryWins ==
    outcome.kind = "classify" =>
        LET name == args[1]
            matching == IF name.is_none \/ name.text = <<>> THEN {}
                        ELSE {i \in 1..4 :
                                 matches_type(name.text, CategoryPriority[i])}
        IN  IF matching = {}
            THEN outcome.body = "UNKNOWN"
            ELSE \E i \in matching :
                    /\ outcome.body = CategoryPriority[i]
                    /\ \A j \in 1..(i - 1) : j \notin matching

\* a lower-case name with two tournament patterns and one cash pattern
C18_Witness ==
    /\ outcome.kind = "classify"
    /\ args[1] = Str(<<"gpp", "$20K", "50/50">>)
    /\ outcome.body = "CASH"

\* a missing name is classified without an error
C18_WitnessMissing ==
    /\ outcome.kind = "classify"
    /\ args[1] = None
    /\ outcome.body = "UNKNOWN"

\* C19: for BehavioralMetrics, PersonaScore and PatternWeights,
\* from_dict(to_dict(r)) succeeds and yields a record every field of which
\* equals the field of r, the decimal values exactly.
C19_RoundTrip ==
    /\ outcome.kind = "BehavioralMetrics.round_trip" =>
           /\ outcome.body.status = "ok"
           /\ \A name \in DOMAIN metrics.value :
                  outcome.body.value[name] = metrics.value[name]
    /\ outcome.kind = "PersonaScore.round_trip" =>
           /\ outcome.body.status = "ok"
           /\ \A name \in DOMAIN persona.value :
                  outcome.body.value[name] = persona.value[name]
    /\ outcome.kind = "PatternWeights.round_trip" =>
           /\ outcome.body.status = "ok"
           /\ \A name \in PatternSet :
                  outcome.body.value[name] = weights.value[name]

\* calculated metrics with a negative ROI and a non-empty breakdown came back
\* from the round trip
C19_Witness ==
    /\ outcome.kind = "BehavioralMetrics.round_trip"
    /\ outcome.body.status = "ok"
    /\ metrics.value.roi_overall < 0
    /\ metrics.value.entries_by_sport # <<>>
    /\ outcome.body.value.roi_overall = metrics.value.roi_overall

\* blended weights with a fractional value came back from the round trip
C19_WitnessWeights ==
    /\ outcome.kind = "PatternWeights.round_trip"
    /\ outcome.body.status = "ok"
    /\ \E name \in PatternSet : weights.value[name] % 10000 # 0

\* a persona score came back from the round trip
C19_WitnessPersona ==
    /\ outcome.kind = "PersonaScore.round_trip"
    /\ outcome.body.status = "ok"
    /\ persona.value.bettor = 3333

\* C25: get_weight(name) returns the stored weight and apply_to_score(name,
\* base) returns base * weight when name is one of the eight pattern names,
\* and both raise AttributeError for every other name.
C25_WeightLookup ==
    /\ outcome.kind = "get_weight" =>
           outcome.body.result =
               IF outcome.body.pattern_name \in PatternSet
               THEN Ok([type |-> "Decimal",
                        value |-> weights.value[outcome.body.pattern_name]])
               ELSE Raised("AttributeError")
    /\ outcome.kind = "apply_to_score" =>
           outcome.body.result =
               IF outcome.body.pattern_name \in PatternSet
               THEN Ok([type |-> "Decimal",
                        value |-> outcome.body.base_score
                                  * weights.value[outcome.body.pattern_name]])
               ELSE Raised("AttributeError")

\* a string contains a sequence of characters
Contains(s, old) ==
    \E k \in 1..Len(s) : StartsWith(SubSeq(s, k, Len(s)), old)

\* a string contains one of the dangerous sequences
Dangerous(s) ==
    \E k \in 1..Len(dangerous_chars) : Contains(s, dangerous_chars[k])

\* C26: for every input string sanitize_field returns a string that contains
\* none of the dangerous sequences and has no leading or trailing
\* whitespace; a string without dangerous sequences comes back unchanged
\* apart from the trimming.
C26_SanitizedIsClean ==
    op = "sanitize_field" =>
        LET result == outcome.body
        IN  /\ ~Dangerous(result)
            /\ result # <<>> => result[1] # " " /\ result[Len(result)] # " "
            /\ ~Dangerous(args[1]) => result = Strip(args[1])

-----------------------------------------------------------------------------
(* Attribute assignment: a caller constructs a BehavioralMetrics or a
   PatternWeights and then assigns to one of its fields.  A frozen dataclass
   raises FrozenInstanceError; a plain one stores the value, and
   __post_init__ does not run again. *)

\* m.<field> = value
SetMetricsAttr ==
    /\ op = "BehavioralMetrics"
    /\ metrics.status = "ok"
    /\ outcome = NoOutcome
    /\ \E field \in NumericFields, value \in FieldGrid :
          IF BehavioralMetrics_frozen
          THEN /\ outcome' = Outcome("FrozenInstanceError", <<field, value>>)
               /\ metrics' = metrics
          ELSE /\ outcome' = Outcome("assigned", <<field, value>>)
               /\ metrics' = Ok([metrics.value EXCEPT ![field] = value])
    /\ UNCHANGED <<op, args, scorer, classified, persona, weights>>
    /\ UNCHANGED restOfRecords

\* w.<pattern> = value
SetWeightsAttr ==
    /\ op = "PatternWeights"
    /\ weights.status = "ok"
    /\ outcome = NoOutcome
    /\ \E name \in PatternSet, value \in WeightGrid :
          IF PatternWeights_frozen
          THEN /\ outcome' = Outcome("FrozenInstanceError", <<name, value>>)
               /\ weights' = weights
          ELSE /\ outcome' = Outcome("assigned", <<name, value>>)
               /\ weights' = Ok([weights.value EXCEPT ![name] = value])
    /\ UNCHANGED <<op, args, scorer, classified, metrics, persona>>
    /\ UNCHANGED restOfRecords

NextAssign ==
    \/ ConstructMetrics
    \/ ConstructWeights
    \/ SetMetricsAttr
    \/ SetWeightsAttr
    \/ RoundTripMetrics
    \/ RoundTripWeights

SpecAssign == InitRecords /\ [][NextAssign]_vars

\* C20: a BehavioralMetrics and a PatternWeights are immutable once
\* constructed: whatever the caller does afterwards, the record holds the
\* field values its constructor was given.
C20_ImmutableOnceConstructed ==
    /\ (op = "BehavioralMetrics" /\ metrics.status = "ok") =>
           metrics.value = args[1]
    /\ (op = "PatternWeights" /\ weights.status = "ok") =>
           \A name \in PatternSet :
               weights.value[name] =
                   IF name \in DOMAIN args[1] THEN args[1][name] ELSE WeightOne

-----------------------------------------------------------------------------
(* Concurrent invocations.  Each thread runs classify, score, detect and map
   on its own batch.  A thread classifies either with its own
   ContestTypeClassifier(), as app.py and demo.py do, or with the module-level
   classify_contest, which keeps its classifier in the module global
   _default_classifier.  In this specification entries, pc, op, scorer,
   classified, metrics, persona, weights and outcome are functions of the
   thread, driver holds the module global, and trace holds the reads of the
   module global: who read it and who had written what was read. *)

MaxThreads == 2
Threads == 1..MaxThreads

\* the batches the threads are handed
ThreadBatches ==
    { <<DFSEntry("1", Day(0, 0), "NFL", "UNKNOWN", 1000, 0, GppName)>>,
      <<DFSEntry("2", Day(1, 1), "NFL", "UNKNOWN", 1000, 2500, CashName),
        DFSEntry("3", Day(8, 0), "NBA", "UNKNOWN", 500, 0,
                 Str(<<"H2H", "$5">>))>> }

\* _default_classifier = None
NoDefaultClassifier == [exists |-> FALSE, made_by |-> 0]

\* _default_classifier = ContestTypeClassifier(), made by a thread
DefaultClassifier(t) == [exists |-> TRUE, made_by |-> t]

\* a thread that works on the batch of the first thread
local_entries_shared(t) == entries[1]

\* the batch a thread works on: its own local variable
local_entries(t) == entries[t]

InitThreads ==
    /\ clock = StartOfClock
    /\ entries \in [Threads -> ThreadBatches]
    /\ op \in [Threads -> {"ContestTypeClassifier", "classify_contest"}]
    /\ pc = [t \in Threads |->
                IF op[t] = "classify_contest" THEN "check" ELSE "classify"]
    /\ driver = NoDefaultClassifier
    /\ trace = {}
    /\ scorer = [t \in Threads |-> NoScorer]
    /\ classified = [t \in Threads |-> <<>>]
    /\ metrics = [t \in Threads |-> NoResult]
    /\ persona = [t \in Threads |-> NoResult]
    /\ weights = [t \in Threads |-> NoResult]
    /\ outcome = [t \in Threads |-> NoOutcome]
    /\ calls = <<>> /\ args = <<>> /\ first = <<>>

restOfThreads == <<entries, op, calls, args, first>>

\* classify_contest: if _default_classifier is None
ThreadCheckDefault(t) ==
    /\ pc[t] = "check"
    /\ trace' = trace \cup {[reader |-> t, writer |-> driver.made_by]}
    /\ pc' = [pc EXCEPT ![t] = IF driver.exists THEN "classify" ELSE "create"]
    /\ UNCHANGED <<clock, driver, scorer, classified, metrics, persona,
                   weights, outcome>>
    /\ UNCHANGED restOfThreads

\* classify_contest: _default_classifier = ContestTypeClassifier()
ThreadCreateDefault(t) ==
    /\ pc[t] = "create"
    /\ driver' = DefaultClassifier(t)
    /\ pc' = [pc EXCEPT ![t] = "classify"]
    /\ UNCHANGED <<clock, trace, scorer, classified, metrics, persona,
                   weights, outcome>>
    /\ UNCHANGED restOfThreads

\* the batch classified: by _default_classifier.classify, read again from the
\* module global, or by the thread's own classifier
ThreadClassify(t) ==
    /\ pc[t] = "classify"
    /\ trace' = IF op[t] = "classify_contest"
                THEN trace \cup {[reader |-> t, writer |-> driver.made_by]}
                ELSE trace
    /\ classified' = [classified EXCEPT
                         ![t] = classify_entries(local_entries(t))]
    /\ pc' = [pc EXCEPT ![t] = "score"]
    /\ UNCHANGED <<clock, driver, scorer, metrics, persona, weights, outcome>>
    /\ UNCHANGED restOfThreads

\* BehavioralScorer().calculate_metrics(classified)
ThreadScore(t) ==
    /\ pc[t] = "score"
    /\ scorer' = [scorer EXCEPT ![t] = NewScorer(NoRef, clock)]
    /\ metrics' = [metrics EXCEPT
                      ![t] = calculate_metrics(scorer'[t], classified[t])]
    /\ IF metrics'[t].status = "ok"
       THEN pc' = [pc EXCEPT ![t] = "detect"] /\ UNCHANGED outcome
       ELSE /\ pc' = [pc EXCEPT ![t] = "done"]
            /\ outcome' = [outcome EXCEPT
                              ![t] = Outcome(metrics'[t].status, <<>>)]
    /\ UNCHANGED <<clock, driver, trace, classified, persona, weights>>
    /\ UNCHANGED restOfThreads

\* PersonaDetector().score_personas(metrics)
ThreadDetect(t) ==
    /\ pc[t] = "detect"
    /\ persona' = [persona EXCEPT ![t] = score_personas(metrics[t].value)]
    /\ IF persona'[t].status = "ok"
       THEN pc' = [pc EXCEPT ![t] = "map"] /\ UNCHANGED outcome
       ELSE /\ pc' = [pc EXCEPT ![t] = "done"]
            /\ outcome' = [outcome EXCEPT
                              ![t] = Outcome(persona'[t].status, <<>>)]
    /\ UNCHANGED <<clock, driver, trace, scorer, classified, metrics, weights>>
    /\ UNCHANGED restOfThreads

\* WeightMapper().calculate_weights(persona_score)
ThreadMap(t) ==
    /\ pc[t] = "map"
    /\ weights' = [weights EXCEPT ![t] = calculate_weights(persona[t].value)]
    /\ outcome' = [outcome EXCEPT ![t] = Outcome("ok", <<>>)]
    /\ pc' = [pc EXCEPT ![t] = "done"]
    /\ UNCHANGED <<clock, driver, trace, scorer, classified, metrics, persona>>
    /\ UNCHANGED restOfThreads

NextThreads ==
    \/ \E t \in Threads : ThreadCheckDefault(t)
    \/ \E t \in Threads : ThreadCreateDefault(t)
    \/ \E t \in Threads : ThreadClassify(t)
    \/ \E t \in Threads : ThreadScore(t)
    \/ \E t \in Threads : ThreadDetect(t)
    \/ \E t \in Threads : ThreadMap(t)

SpecThreads == InitThreads /\ [][NextThreads]_vars

\* what classify, score, detect and map give for a batch when run alone with
\* a scorer constructed at the time `at`
RunAlone(es, at) ==
    LET c == classify_entries(es)
        m == calculate_metrics(NewScorer(NoRef, at), c)
        p == IF m.status = "ok" THEN score_personas(m.value) ELSE NoResult
        w == IF p.status = "ok" THEN calculate_weights(p.value) ELSE NoResult
    IN  [classified |-> c, metrics |-> m, persona |-> p, weights |-> w]

\* every finished invocation holds what it would hold had it run alone
SameAsAlone ==
    \A t \in Threads :
        pc[t] = "done" =>
            RunAlone(entries[t], scorer[t].built_at) =
                [classified |-> classified[t], metrics |-> metrics[t],
                 persona |-> persona[t], weights |-> weights[t]]

-----------------------------------------------------------------------------
(* The classifier applied to a batch, and then once more to its own output.
   args keeps the batch as it was handed in, first the output of the first
   application. *)

\* entries as a parser or a caller constructed them: with and without a
\* contest name, and with a contest type from an earlier classification that
\* the name does not support
ClassifyPool ==
    { DFSEntry("1", Day(0, 0), "NFL", "UNKNOWN", 1000, 0, GppName),
      DFSEntry("2", Day(1, 1), "NFL", "GPP", 1000, 2500, CashName),
      DFSEntry("3", Day(8, 0), "NBA", "H2H", 500, 0, None),
      DFSEntry("4", Day(3, 0), "NFL", "CASH", 2500, 0,
               Str(<<"NFL", "20-Max", "GPP">>)),
      DFSEntry("5", Day(0, 1), "MLB", "MULTI", 0, 500, Str(<<>>)),
      [DFSEntry("6", Day(2, 0), "NBA", "UNKNOWN", 300, 300,
                Str(<<"h2h", "Double", "Up">>)) EXCEPT !.source = "FANDUEL"],
      DFSEntry("7", Day(4, 1), "NFL", "BOGUS", 100, 0,
               Str(<<"Beginner", "Contest">>)) }

InitClassify ==
    /\ clock = StartOfClock
    /\ entries \in SeqsUpTo(ClassifyPool, MaxBatch)
    /\ args = <<entries>>
    /\ scorer = NoScorer
    /\ calls = <<>>
    /\ driver = "classifier"
    /\ pc = "classify"
    /\ trace = <<>> /\ classified = <<>> /\ first = <<>>
    /\ metrics = NoResult /\ persona = NoResult /\ weights = NoResult
    /\ outcome = NoOutcome /\ op = "none"

restOfClassify == <<clock, scorer, calls, driver, trace, metrics, persona,
                    weights, outcome, op, args>>

\* classified = classifier.classify_entries(entries)
ClassifyEntries ==
    /\ driver = "classifier" /\ pc = "classify"
    /\ classified' = classify_entries(entries)
    /\ pc' = "again"
    /\ UNCHANGED <<entries, first>>
    /\ UNCHANGED restOfClassify

\* classified = classifier.classify_entries(classified), the output of the
\* first application kept for comparison
ClassifyEntriesAgain ==
    /\ driver = "classifier" /\ pc = "again"
    /\ first' = classified
    /\ classified' = classify_entries(classified)
    /\ pc' = "done"
    /\ UNCHANGED entries
    /\ UNCHANGED restOfClassify

NextClassify ==
    \/ ClassifyEntries
    \/ ClassifyEntriesAgain

SpecClassify == InitClassify /\ [][NextClassify]_vars

\* the fields of a DFSEntry other than contest_type
OtherEntryFields ==
    {"entry_id", "date", "sport", "entry_fee", "winnings", "points", "source",
     "contest_name"}

\* C27: classify_entry returns a new entry whose contest_type is
\* classify(contest_name) and whose other fields equal the input's; the input
\* is left as it was; classify_entries keeps length and order; applied to its
\* own output it changes nothing.
C27_ClassifyFrame ==
    /\ entries = args[1]
    /\ pc = "again" =>
           /\ Len(classified) = Len(entries)
           /\ \A i \in 1..Len(entries) :
                  /\ classified[i].contest_type =
                         classify(entries[i].contest_name)
                  /\ \A field \in OtherEntryFields :
                         classified[i][field] = entries[i][field]
    /\ pc = "done" => classified = first

\* a batch whose two entries both change their contest type was classified
\* twice
C27_Witness ==
    /\ pc = "done"
    /\ Len(entries) = 2
    /\ \A i \in 1..2 : first[i].contest_type # entries[i].contest_type
    /\ first[1].contest_type # first[2].contest_type
    /\ entries[1].contest_name = None

-----------------------------------------------------------------------------
(* The CSV parsers, src/parsers/base_parser.py, draftkings_parser.py and
   fanduel_parser.py.  A source is a file that may be missing, with the
   columns of its header line and its data rows as pandas hands them over:
   a cell is NaN, a number, or a text.  Money is in cents; the texts of the
   money cells are over digits, ".", "-", "+", "$", "," and blanks, with at
   most two decimals. *)

NanCell == [kind |-> "nan", num |-> 0, text |-> <<>>]
NumCell(v) == [kind |-> "num", num |-> v, text |-> <<>>]
TextCell(t) == [kind |-> "text", num |-> 0, text |-> t]

\* str(cell): the text of a cell, NaN printing as nan
StrOf(cell, nan) == IF cell.kind = "nan" THEN nan ELSE cell.text

DigitChars == <<"0", "1", "2", "3", "4", "5", "6", "7", "8", "9">>

IsDigit(c) == \E i \in 1..10 : DigitChars[i] = c

DigitOf(c) == (CHOOSE i \in 1..10 : DigitChars[i] = c) - 1

RECURSIVE CharsValue(_)
CharsValue(cs) ==
    IF cs = <<>> THEN 0
    ELSE 10 * CharsValue(SubSeq(cs, 1, Len(cs) - 1)) + DigitOf(cs[Len(cs)])

\* where the first point of a text is, or one past its end
PointAt(body) ==
    IF \A i \in 1..Len(body) : body[i] # "." THEN Len(body) + 1
    ELSE CHOOSE i \in 1..Len(body) :
             body[i] = "." /\ \A j \in 1..(i - 1) : body[j] # "."

AllDigits(cs) == \A i \in 1..Len(cs) : IsDigit(cs[i])

\* Decimal of the characters before and after the point: digits only, at
\* least one of them; the value is in cents
Unsigned(whole, frac) ==
    IF AllDigits(whole) /\ AllDigits(frac)
           /\ Len(whole) + Len(frac) > 0 /\ Len(frac) <= 2
    THEN Ok(CharsValue(whole) * CentScale
                + CharsValue(frac) * Pow10(2 - Len(frac)))
    ELSE Raised("InvalidOperation")

UnsignedDecimal(body) ==
    Unsigned(SubSeq(body, 1, PointAt(body) - 1),
             SubSeq(body, PointAt(body) + 1, Len(body)))

Negated(r) == IF r.status = "ok" THEN Ok(-r.value) ELSE r

SignedDecimal(s) ==
    IF s # <<>> /\ Head(s) = "-" THEN Negated(UnsignedDecimal(Tail(s)))
    ELSE IF s # <<>> /\ Head(s) = "+" THEN UnsignedDecimal(Tail(s))
    ELSE UnsignedDecimal(s)

\* Decimal(text): blanks around the number are ignored, then an optional
\* sign, digits and at most one point with a digit somewhere; anything else
\* raises InvalidOperation
DecimalOf(text) == SignedDecimal(Strip(text))

\* except InvalidOperation: raise ValueError
AsValueError(r) == IF r.status = "ok" THEN r ELSE Raised("ValueError")

\* except InvalidOperation: return Decimal('0')
OrZero(r) == IF r.status = "ok" THEN r.value ELSE 0

\* the text without "$" and ","
WithoutCurrencySigns(t) == SelectSeq(t, LAMBDA c : c \notin {"$", ","})

\* what the cleaned text of a money cell converts to
CurrencyOf(value_str) ==
    IF value_str = <<>> \/ value_str = <<"-">> THEN Ok(0)
    ELSE AsValueError(DecimalOf(value_str))

\* BaseParser._clean_currency
clean_currency(value) ==
    IF value.kind = "nan" THEN Ok(0)
    ELSE IF value.kind = "num" THEN Ok(value.num)
    ELSE CurrencyOf(WithoutCurrencySigns(Strip(value.text)))

\* what the stripped text of a points cell converts to
PointsOf(value_str) ==
    IF value_str = <<>> \/ value_str = <<"-">> THEN 0
    ELSE OrZero(DecimalOf(value_str))

\* BaseParser._clean_points: never raises
clean_points(value) ==
    IF value.kind = "nan" THEN 0
    ELSE IF value.kind = "num" THEN value.num
    ELSE PointsOf(Strip(value.text))

SPORT_ALIASES ==
    [FOOTBALL |-> "NFL", BASKETBALL |-> "NBA", BASEBALL |-> "MLB",
     HOCKEY |-> "NHL", GOLF |-> "PGA", UFC |-> "MMA", NCAAB |-> "CBB",
     NCAAF |-> "CFB"]

\* BaseParser._normalize_sport on a sport written as one word between blanks
normalize_sport(sport) ==
    LET stripped == Strip(sport)
        word == IF stripped = <<>> THEN "" ELSE Upper(stripped[1])
    IN  IF word \in DOMAIN SPORT_ALIASES THEN SPORT_ALIASES[word] ELSE word

\* a date text: the layout it is written in, the day and tick it denotes,
\* and whether blanks surround it; the layout "" is the empty text
DateText(layout, day, tick, padded) ==
    [layout |-> layout, day |-> day, tick |-> tick, padded |-> padded]

DATE_FORMATS ==
    <<"%Y-%m-%d %H:%M:%S", "%Y-%m-%d", "%m/%d/%Y %I:%M %p", "%m/%d/%Y",
      "%b %d, %Y %I:%M%p", "%b %d, %Y %I:%M %p", "%B %d, %Y", "%d-%b-%Y">>

\* the layouts that carry no time of day: strptime gives midnight
DateOnlyFormats == {"%Y-%m-%d", "%m/%d/%Y", "%B %d, %Y", "%d-%b-%Y"}

\* utils/date_parser.parse_date: strip, refuse the empty text, then the
\* first format that reads the text
parse_date(date_string) ==
    IF date_string.layout = "" THEN Raised("ValueError")
    ELSE IF \E i \in 1..Len(DATE_FORMATS) :
                DATE_FORMATS[i] = date_string.layout
    THEN Ok(Day(date_string.day,
                IF date_string.layout \in DateOnlyFormats
                THEN 0 ELSE date_string.tick))
    ELSE Raised("ValueError")

\* DraftKingsParser._get_column_mapping
DK_COLUMN_MAPPING ==
    [entry_id |-> "Entry ID", contest_name |-> "Contest Name",
     entry_fee |-> "Entry Fee", winnings |-> "Winnings", points |-> "Points",
     sport |-> "Sport", date |-> "Date Entered"]

\* FanDuelParser._get_column_mapping
FD_COLUMN_MAPPING ==
    [entry_id |-> "Entry Id", contest_name |-> "Contest",
     entry_fee |-> "Entry Fee", winnings |-> "Winnings", points |-> "Points",
     sport |-> "Sport", date |-> "Entered"]

ParserClasses == {"DraftKingsParser", "FanDuelParser"}

\* _get_column_mapping of a parser class
get_column_mapping(class) ==
    IF class = "DraftKingsParser" THEN DK_COLUMN_MAPPING
    ELSE FD_COLUMN_MAPPING

\* _get_source_name of a parser class
get_source_name(class) ==
    IF class = "DraftKingsParser" THEN "DRAFTKINGS" ELSE "FANDUEL"

\* set(mapping.values())
Values(mapping) == {mapping[k] : k \in DOMAIN mapping}

\* BaseParser._validate_columns: the required columns the frame lacks
missing_columns(class, columns) ==
    Values(get_column_mapping(class)) \ columns

validate_columns(class, columns) ==
    IF missing_columns(class, columns) # {}
    THEN Raised("ValueError")
    ELSE Ok(<<>>)

\* BaseParser._parse_single_row: the cells are read through the mapping, the
\* first conversion that fails raises, and DFSEntry validates the rest
parse_single_row(class, row) ==
    LET mapping == get_column_mapping(class)
        entry_fee == clean_currency(row[mapping.entry_fee])
        winnings == clean_currency(row[mapping.winnings])
        date == parse_date(StrOf(row[mapping.date],
                                 DateText("nan", 0, 0, FALSE)))
    IN  IF entry_fee.status # "ok" THEN entry_fee
        ELSE IF winnings.status # "ok" THEN winnings
        ELSE IF date.status # "ok" THEN date
        ELSE DFSEntryPostInit(
                 [entry_id |-> StrOf(row[mapping.entry_id], "nan"),
                  date |-> date.value,
                  sport |-> normalize_sport(
                                StrOf(row[mapping.sport], <<"nan">>)),
                  contest_type |-> "UNKNOWN",
                  entry_fee |-> entry_fee.value,
                  winnings |-> winnings.value,
                  points |-> clean_points(row[mapping.points]),
                  source |-> get_source_name(class),
                  contest_name |->
                      Str(StrOf(row[mapping.contest_name], <<"nan">>))])

\* the warning _parse_rows records for the row with index idx
Warning(idx, error) == [row |-> idx, error |-> error]

\* BaseParser._parse_rows from the row at position k on: iterrows numbers
\* the rows from 0
RECURSIVE parse_rows(_, _, _, _, _)
parse_rows(class, rows, k, parsed, warnings) ==
    IF k > Len(rows) THEN [entries |-> parsed, warnings |-> warnings]
    ELSE LET made == parse_single_row(class, rows[k])
         IN  IF made.status = "ok"
             THEN parse_rows(class, rows, k + 1,
                             Append(parsed, made.value), warnings)
             ELSE parse_rows(class, rows, k + 1, parsed,
                             Append(warnings, Warning(k - 1, made.status)))

\* a parse that appends to the warnings of the calls before
parse_keeps_warnings(class, warnings, source) ==
    IF ~source.exists
    THEN [result |-> Raised("FileNotFoundError"), warnings |-> warnings]
    ELSE IF validate_columns(class, source.columns).status # "ok"
    THEN [result |-> Raised("ValueError"), warnings |-> warnings]
    ELSE LET done == parse_rows(class, source.rows, 1, <<>>, warnings)
         IN  [result |-> Ok(done.entries), warnings |-> done.warnings]

\* BaseParser.parse on a parser holding warnings: the warnings are reset
\* before anything is read
parse(class, warnings, source) ==
    LET reset == <<>>
    IN  IF ~source.exists
        THEN [result |-> Raised("FileNotFoundError"), warnings |-> reset]
        ELSE IF validate_columns(class, source.columns).status # "ok"
        THEN [result |-> Raised("ValueError"), warnings |-> reset]
        ELSE LET done == parse_rows(class, source.rows, 1, <<>>, reset)
             IN  [result |-> Ok(done.entries), warnings |-> done.warnings]

-----------------------------------------------------------------------------
(* One parser instance called again and again.  driver is the parser's
   class, trace is parser.warnings, args the source of the last call,
   outcome and entries what that call raised or returned, calls the number
   of calls made and first the number of warnings the parser held before
   the last call. *)

\* the fields of the rows a source may hold
RowFields ==
    { [entry_id |-> TextCell("1"),
       contest_name |-> TextCell(GppName.text),
       entry_fee |-> TextCell(<<"$", "5", ".", "0", "0">>),
       winnings |-> TextCell(<<" ", "1", "2", ".", "5">>),
       points |-> NumCell(0),
       sport |-> TextCell(<<"nfl">>),
       date |-> TextCell(DateText("%Y-%m-%d %H:%M:%S", 9, 1, FALSE))],
      [entry_id |-> TextCell("2"),
       contest_name |-> NanCell,
       entry_fee |-> NumCell(1000),
       winnings |-> NanCell,
       points |-> TextCell(<<"$", "5">>),
       sport |-> TextCell(<<" ", "FOOTBALL", " ">>),
       date |-> TextCell(DateText("%m/%d/%Y", 3, 1, TRUE))],
      [entry_id |-> TextCell("3"),
       contest_name |-> TextCell(CashName.text),
       entry_fee |-> TextCell(<<"a", "b", "c">>),
       winnings |-> TextCell(<<"-">>),
       points |-> NanCell,
       sport |-> TextCell(<<"NBA">>),
       date |-> TextCell(DateText("%Y-%m-%d", 5, 0, FALSE))],
      [entry_id |-> TextCell("4"),
       contest_name |-> TextCell(CashName.text),
       entry_fee |-> TextCell(<<"-", "5">>),
       winnings |-> NumCell(0),
       points |-> NumCell(1),
       sport |-> TextCell(<<"NBA">>),
       date |-> TextCell(DateText("%Y-%m-%d", 5, 0, FALSE))],
      [entry_id |-> TextCell("5"),
       contest_name |-> TextCell(GppName.text),
       entry_fee |-> TextCell(<<"1", ",", "0", "0", "0">>),
       winnings |-> TextCell(<<>>),
       points |-> NumCell(1),
       sport |-> TextCell(<<"NBA">>),
       date |-> NanCell] }

\* the row of a file of the class's platform: the cells under its headers
RowOf(class, fields) ==
    LET mapping == get_column_mapping(class)
    IN  [c \in Values(mapping) |->
            fields[CHOOSE k \in DOMAIN mapping : mapping[k] = c]]

MissingFile == [exists |-> FALSE, columns |-> {}, rows |-> <<>>]

\* the sources a parser of the class may be handed: a missing file, files
\* of its platform, and files without the Points column
Sources(class) ==
    {MissingFile}
        \cup { [exists |-> TRUE,
                columns |-> Values(get_column_mapping(class)),
                rows |-> rows] :
               rows \in SeqsUpTo({RowOf(class, f) : f \in RowFields},
                                 MaxBatch) }
        \cup { [exists |-> TRUE,
                columns |-> Values(get_column_mapping(class)) \ {"Points"},
                rows |-> <<>>] }

InitParser ==
    /\ clock = StartOfClock
    /\ driver \in ParserClasses
    /\ trace = <<>>
    /\ calls = 0
    /\ args = MissingFile
    /\ entries = <<>>
    /\ first = 0
    /\ outcome = NoOutcome
    /\ scorer = NoScorer
    /\ pc = "idle" /\ classified = <<>>
    /\ metrics = NoResult /\ persona = NoResult /\ weights = NoResult
    /\ op = "none"

restOfParser ==
    <<clock, driver, scorer, pc, classified, metrics, persona, weights>>

\* parser.parse(source) returning normally
ParseReturns ==
    /\ calls < MaxCalls
    /\ \E source \in Sources(driver) :
          \E done \in {parse(driver, trace, source)} :
              /\ done.result.status = "ok"
              /\ args' = source
              /\ entries' = done.result.value
              /\ trace' = done.warnings
              /\ outcome' = Outcome("returned", done.result.value)
    /\ first' = Len(trace)
    /\ calls' = calls + 1
    /\ op' = "parse"
    /\ UNCHANGED restOfParser

\* parser.parse(source) raising
ParseRaises ==
    /\ calls < MaxCalls
    /\ \E source \in Sources(driver) :
          \E done \in {parse(driver, trace, source)} :
              /\ done.result.status # "ok"
              /\ args' = source
              /\ entries' = <<>>
              /\ trace' = done.warnings
              /\ outcome' = Outcome(done.result.status, <<>>)
    /\ first' = Len(trace)
    /\ calls' = calls + 1
    /\ op' = "parse"
    /\ UNCHANGED restOfParser

NextParser == ParseReturns \/ ParseRaises

SpecParser == InitParser /\ [][NextParser]_vars

\* a row every cell of which converts, with money that is not negative
WellFormed(class, row) ==
    LET mapping == get_column_mapping(class)
        fee == clean_currency(row[mapping.entry_fee])
        win == clean_currency(row[mapping.winnings])
    IN  /\ fee.status = "ok" /\ fee.value >= 0
        /\ win.status = "ok" /\ win.value >= 0
        /\ row[mapping.date].kind = "text"
        /\ parse_date(row[mapping.date].text).status = "ok"

\* the positions, from 1, of the rows of the last source that are well formed
GoodRows == {i \in 1..Len(args.rows) : WellFormed(driver, args.rows[i])}

\* the k-th smallest member of a set of numbers
Nth(S, k) == CHOOSE i \in S : Cardinality({j \in S : j < i}) = k - 1

\* C28: after any sequence of parse calls on one parser, a call that returned
\* gave one entry per well-formed row of its source in row order and left one
\* warning per other row, so entries plus warnings count the data rows, and
\* parser.warnings holds the warnings of the last call only.
C28_ParseAccounting ==
    /\ outcome.kind = "returned" =>
          /\ Len(entries) + Len(trace) = Len(args.rows)
          /\ Len(entries) = Cardinality(GoodRows)
          /\ \A k \in 1..Len(entries) :
                entries[k].entry_id = StrOf(
                    args.rows[Nth(GoodRows, k)]
                        [get_column_mapping(driver).entry_id], "nan")
          /\ \A k \in 1..Len(trace) :
                trace[k].row + 1 =
                    Nth((1..Len(args.rows)) \ GoodRows, k)
    /\ outcome.kind \notin {"returned", "none"} => trace = <<>>

\* a second call on a parser that held two warnings returns one entry and
\* leaves one warning
C28_Witness ==
    /\ calls = 2
    /\ outcome.kind = "returned"
    /\ first = 2
    /\ Len(entries) = 1
    /\ Len(trace) = 1

\* a call that raises on a parser that held warnings
C28_WitnessRaised ==
    /\ calls = 2
    /\ outcome.kind = "ValueError"
    /\ first > 0

-----------------------------------------------------------------------------
(* Platform detection, src/parsers/platform_detector.py and
   CSVValidator.detect_platform, and the two callers that hand the detected
   file to a parser: parse_csv in app.py and
   DFSHistoryParser.parse_csv_string.  A header is held as written: its
   name, with a blank in front when it is written with one. *)

\* utils/constants.py
DK_REQUIRED_COLUMNS ==
    {"Entry ID", "Contest Name", "Entry Fee", "Winnings", "Sport",
     "Date Entered"}

FD_REQUIRED_COLUMNS ==
    {"Entry Id", "Contest", "Entry Fee", "Winnings", "Sport", "Entered"}

\* CSVValidator.DK_REQUIRED_COLUMNS and CSVValidator.FD_REQUIRED_COLUMNS
ValidatorDkColumns ==
    <<"Entry ID", "Contest Name", "Entry Fee", "Winnings", "Sport",
      "Date Entered">>

ValidatorFdColumns ==
    <<"Entry Id", "Contest", "Entry Fee", "Winnings", "Sport", "Entered">>

\* a header written with nothing around its name
Written(name) == <<name>>

\* platform_detector._identify_platform: the headers are stripped, and a
\* platform is named when at most one of its required columns is missing,
\* DraftKings first
identify_platform(headers) ==
    LET headers_normalized == {Strip(h) : h \in headers}
        dk_matches == Cardinality({c \in DK_REQUIRED_COLUMNS :
                                      Written(c) \in headers_normalized})
        fd_matches == Cardinality({c \in FD_REQUIRED_COLUMNS :
                                      Written(c) \in headers_normalized})
        dk_threshold == Cardinality(DK_REQUIRED_COLUMNS) - 1
        fd_threshold == Cardinality(FD_REQUIRED_COLUMNS) - 1
    IN  IF dk_matches >= dk_threshold THEN Ok("DRAFTKINGS")
        ELSE IF fd_matches >= fd_threshold THEN Ok("FANDUEL")
        ELSE Raised("ValueError")

\* CSVValidator.detect_platform: every required column is among the headers
\* as written, DraftKings first
detect_platform(headers) ==
    LET dk_match == \A i \in 1..Len(ValidatorDkColumns) :
                        Written(ValidatorDkColumns[i]) \in headers
        fd_match == \A i \in 1..Len(ValidatorFdColumns) :
                        Written(ValidatorFdColumns[i]) \in headers
    IN  IF dk_match THEN "DRAFTKINGS"
        ELSE IF fd_match THEN "FANDUEL"
        ELSE "UNKNOWN"

\* the column names of the frame pandas reads: the headers as written, of
\* which only those written without blanks can be a required name
ColumnNames(headers) == {h[1] : h \in {g \in headers : Len(g) = 1}}

\* the file with these headers and no data rows
HeaderOnly(headers) ==
    [exists |-> TRUE, columns |-> ColumnNames(headers), rows |-> <<>>]

\* the parser app.py and DFSHistoryParser select for a platform
ParserFor(platform) ==
    IF platform = "DRAFTKINGS" THEN "DraftKingsParser" ELSE "FanDuelParser"

HeaderNames ==
    {"Entry ID", "Contest Name", "Entry Fee", "Winnings", "Sport",
     "Date Entered", "Entry Id", "Contest", "Entered", "Points"}

HeaderPool ==
    {Written(n) : n \in HeaderNames} \cup {<<" ", "Date Entered">>}

InitDetect ==
    /\ clock = StartOfClock
    /\ args \in SUBSET HeaderPool
    /\ driver = "none"
    /\ op = "none"
    /\ outcome = NoOutcome
    /\ entries = <<>> /\ trace = <<>> /\ calls = 0 /\ first = <<>>
    /\ scorer = NoScorer
    /\ pc = "idle" /\ classified = <<>>
    /\ metrics = NoResult /\ persona = NoResult /\ weights = NoResult

restOfDetect ==
    <<clock, args, entries, calls, first, scorer, pc, classified, metrics,
      persona, weights>>

\* app.py parse_csv on a file holding the header line only: the detector's
\* ValueError becomes a 400, the parser's ValueError is not caught, and an
\* empty entry list is a 400
AppParseCsv ==
    /\ op = "none"
    /\ LET platform == identify_platform(args)
           done == parse(ParserFor(platform.value), <<>>, HeaderOnly(args))
       IN  IF platform.status # "ok"
           THEN /\ driver' = "none"
                /\ trace' = <<>>
                /\ outcome' = Outcome("HTTP 400", "Could not detect platform")
           ELSE /\ driver' = platform.value
                /\ trace' = done.warnings
                /\ outcome' =
                      IF done.result.status # "ok"
                      THEN Outcome("HTTP 500", "Missing required columns")
                      ELSE Outcome("HTTP 400", "No valid entries found")
    /\ op' = "parse_csv"
    /\ UNCHANGED restOfDetect

\* DFSHistoryParser.parse_csv_string on the same file
HistoryParseCsvString ==
    /\ op = "none"
    /\ LET platform == detect_platform(args)
           done == parse(ParserFor(platform), <<>>, HeaderOnly(args))
       IN  IF platform = "UNKNOWN"
           THEN /\ driver' = "UNKNOWN"
                /\ trace' = <<>>
                /\ outcome' = Outcome("ValueError", "Unknown CSV format")
           ELSE /\ driver' = platform
                /\ trace' = done.warnings
                /\ outcome' =
                      IF done.result.status # "ok"
                      THEN Outcome("ValueError", "Missing required columns")
                      ELSE Outcome("returned",
                                   classify_entries(done.result.value))
    /\ op' = "parse_csv_string"
    /\ UNCHANGED restOfDetect

NextDetect == AppParseCsv \/ HistoryParseCsvString

SpecDetect == InitDetect /\ [][NextDetect]_vars

\* C29: a header set for which detection names a platform is accepted by
\* the parser selected for that platform, so a detected file never fails
\* with 'Missing required columns'; and the two detectors name the same
\* platform whenever both name one.
C29_DetectedHeadersParse ==
    op # "none" =>
        /\ ~(/\ outcome.kind \in {"HTTP 500", "ValueError"}
              /\ outcome.body = "Missing required columns")
        /\ (/\ identify_platform(args).status = "ok"
            /\ detect_platform(args) # "UNKNOWN")
               => identify_platform(args).value = detect_platform(args)

\* the DraftKings headers without Points pass both detectors and the
\* DraftKings parser refuses them
C29_MissingPoints ==
    /\ op = "parse_csv_string"
    /\ args = {Written(c) : c \in DK_REQUIRED_COLUMNS}
    /\ outcome = Outcome("ValueError", "Missing required columns")

\* the FanDuel headers with two DraftKings names added are DraftKings to
\* one detector and FanDuel to the other
C29_DetectorsDisagree ==
    /\ op = "parse_csv"
    /\ args = {Written(c) : c \in FD_REQUIRED_COLUMNS
                                   \cup {"Entry ID", "Contest Name", "Points"}}
    /\ driver = "DRAFTKINGS"
    /\ detect_platform(args) = "FANDUEL"
    /\ outcome = Outcome("HTTP 500", "Missing required columns")

-----------------------------------------------------------------------------
(* ProfileStore, src/storage/profile_store.py, used by one caller at a time.
   scorer holds the store: its pool, and how many pools it has created.  A
   pool is psycopg2's SimpleConnectionPool(1, 10, dsn) as far as the store
   uses it: the number of connections handed out and not put back.
   classified is the database: whether the table exists and the ids of the
   stored profiles.  calls counts the connections the last operation took
   and gave back, first is the store before the last operation. *)

MaxPools == 2      \* pools one store creates

POOL_MAX_CONNECTIONS == 10

NoPool == [exists |-> FALSE, id |-> 0, used |-> 0]

\* ProfileStore(connection_string)
NewProfileStore == [pool |-> NoPool, made |-> 0]

\* ProfileStore._get_connection: the pool is created on first use, which
\* raises when the database cannot be reached, and getconn hands out a
\* connection unless all are out
get_connection(store, reachable) ==
    IF ~store.pool.exists /\ ~reachable
    THEN [store |-> store, conn |-> Raised("OperationalError")]
    ELSE LET made == IF store.pool.exists THEN store.made
                     ELSE store.made + 1
             held == IF store.pool.exists THEN store.pool
                     ELSE [exists |-> TRUE, id |-> made, used |-> 0]
         IN  IF held.used >= POOL_MAX_CONNECTIONS
             THEN [store |-> [pool |-> held, made |-> made],
                   conn |-> Raised("PoolError")]
             ELSE [store |-> [pool |-> [held EXCEPT !.used = @ + 1],
                              made |-> made],
                   conn |-> Ok(held.id)]

\* ProfileStore._release_connection: putconn when there is a pool
release_connection(store, conn) ==
    IF store.pool.exists
    THEN [store EXCEPT !.pool.used = @ - 1]
    ELSE store

\* an operation that puts the connection back only when its body returns
with_connection_no_finally(store, reachable, body) ==
    LET got == get_connection(store, reachable)
    IN  IF got.conn.status # "ok"
        THEN [store |-> got.store, result |-> got.conn, got |-> 0, put |-> 0]
        ELSE IF body.status = "ok"
        THEN [store |-> release_connection(got.store, got.conn.value),
              result |-> body, got |-> 1, put |-> 1]
        ELSE [store |-> got.store, result |-> body, got |-> 1, put |-> 0]

\* conn = self._get_connection(); try: <body> finally:
\* self._release_connection(conn), the frame of the four operations; body is
\* what the statements under try return or raise
with_connection(store, reachable, body) ==
    LET got == get_connection(store, reachable)
    IN  IF got.conn.status # "ok"
        THEN [store |-> got.store, result |-> got.conn, got |-> 0, put |-> 0]
        ELSE [store |-> release_connection(got.store, got.conn.value),
              result |-> body, got |-> 1, put |-> 1]

\* ProfileStore.close
close(store) ==
    IF store.pool.exists THEN [store EXCEPT !.pool = NoPool] ELSE store

UserIds == {"u1", "u2"}

EmptyDatabase == [schema |-> FALSE, rows |-> {}]

StoreOperations ==
    {"init_schema", "save_profile", "get_profile", "delete_profile"}

InitStore ==
    /\ clock = StartOfClock
    /\ scorer = NewProfileStore
    /\ classified = EmptyDatabase
    /\ calls = [got |-> 0, put |-> 0]
    /\ first = NewProfileStore
    /\ op = "none" /\ args = <<>>
    /\ outcome = NoOutcome
    /\ entries = <<>> /\ trace = <<>>
    /\ driver = "none" /\ pc = "idle"
    /\ metrics = NoResult /\ persona = NoResult /\ weights = NoResult

restOfStore ==
    <<clock, entries, trace, driver, pc, metrics, persona, weights>>

\* one operation run to its end: the store, the database and what the
\* caller gets
Operate(name, arg, reachable, body, database) ==
    LET done == with_connection(scorer, reachable, body)
    IN  /\ done.store.made <= MaxPools
        /\ scorer' = done.store
        /\ classified' = IF done.got = 1 /\ body.status = "ok"
                         THEN database ELSE classified
        /\ calls' = [got |-> done.got, put |-> done.put]
        /\ outcome' = Outcome(done.result.status, done.result.value)
        /\ first' = scorer
        /\ op' = name
        /\ args' = arg
        /\ UNCHANGED restOfStore

\* store.init_schema(): CREATE TABLE IF NOT EXISTS, or a database error
InitSchema ==
    \E reachable \in BOOLEAN, fails \in BOOLEAN :
        Operate("init_schema", <<>>, reachable,
                IF fails THEN Raised("psycopg2.Error") ELSE Ok("None"),
                [classified EXCEPT !.schema = TRUE])

\* store.save_profile(profile): the upsert fails without the table
SaveProfile ==
    \E reachable \in BOOLEAN, fails \in BOOLEAN, user_id \in UserIds :
        Operate("save_profile", user_id, reachable,
                IF fails \/ ~classified.schema
                THEN Raised("psycopg2.Error") ELSE Ok(user_id),
                [classified EXCEPT !.rows = @ \cup {user_id}])

\* store.get_profile(user_id): None when there is no row
GetProfile ==
    \E reachable \in BOOLEAN, fails \in BOOLEAN, user_id \in UserIds :
        Operate("get_profile", user_id, reachable,
                IF fails \/ ~classified.schema
                THEN Raised("psycopg2.Error")
                ELSE IF user_id \in classified.rows THEN Ok(user_id)
                ELSE Ok("None"),
                classified)

\* store.delete_profile(user_id): whether a row was deleted
DeleteProfile ==
    \E reachable \in BOOLEAN, fails \in BOOLEAN, user_id \in UserIds :
        Operate("delete_profile", user_id, reachable,
                IF fails \/ ~classified.schema
                THEN Raised("psycopg2.Error")
                ELSE IF user_id \in classified.rows THEN Ok("True")
                ELSE Ok("False"),
                [classified EXCEPT !.rows = @ \ {user_id}])

\* store.close()
Close ==
    /\ scorer' = close(scorer)
    /\ calls' = [got |-> 0, put |-> 0]
    /\ outcome' = Outcome("ok", "None")
    /\ first' = scorer
    /\ op' = "close"
    /\ args' = <<>>
    /\ UNCHANGED <<classified, restOfStore>>

NextStore ==
    InitSchema \/ SaveProfile \/ GetProfile \/ DeleteProfile \/ Close

SpecStore == InitStore /\ [][NextStore]_vars

\* C30: an operation that obtained a connection gave it back exactly once,
\* whether it returned or raised, so no connection is out between
\* operations; close() leaves the store without a pool, and the next
\* operation that gets a connection does so from a pool created then.
C30_ConnectionsReturned ==
    /\ scorer.pool.used = 0
    /\ calls.got = calls.put
    /\ calls.got \in {0, 1}
    /\ op \in StoreOperations /\ outcome.kind \notin {"OperationalError",
                                                       "PoolError"}
          => calls.got = 1
    /\ op = "close" => ~scorer.pool.exists
    /\ op \in StoreOperations /\ ~first.pool.exists /\ calls.got = 1
          => /\ scorer.pool.exists
             /\ scorer.pool.id = first.made + 1
             /\ scorer.made = first.made + 1
    /\ op \in StoreOperations /\ first.pool.exists => scorer = first

\* an operation whose body raised after it got its connection from a pool
\* created after a close()
C30_Witness ==
    /\ op = "save_profile"
    /\ outcome.kind = "psycopg2.Error"
    /\ calls = [got |-> 1, put |-> 1]
    /\ ~first.pool.exists /\ first.made = 1
    /\ scorer.pool.id = 2

\* an operation that returned a stored profile
C30_WitnessReturned ==
    /\ op = "get_profile"
    /\ outcome.kind = "ok"
    /\ outcome.body = "u1"
    /\ calls = [got |-> 1, put |-> 1]

====
